---- MODULE Spec2Model ----
(***************************************************************************)
(* Barrier elision (ZBarrierSetC2::analyze_dominating_barriers), liveness  *)
(* at barrier stubs (ZBarrierSetC2::compute_liveness_at_stubs), the early  *)
(* and the late barrier analysis, the register mask (RegMask) of the C2    *)
(* backend and the contiguous allocator of the arenas, as state machines.  *)
(***************************************************************************)
EXTENDS Integers, Sequences, FiniteSets, TLC

VARIABLES
  cfg,           \* PhaseCFG: blocks, predecessor lists, dominance and nodes (input)
  directive,     \* compile directive options read by process_access (input)
  barrier_data,  \* MachNode::barrier_data() of every node, a set of ZBarrier flags
  sfp_barriers,  \* per safepoint: the records added by MachSafePointNode::record_barrier
  lists,         \* loads, load_dominators, stores, ... of analyze_dominating_barriers
  pc,            \* position in the function that is running
  pass,          \* which call of analyze_dominating_barriers_impl is running (1..3)
  i,             \* index into accesses; in the early pass, into the nodes
  j,             \* index into access_dominators
  access_list,   \* GrowableArray<SafepointAccessRecord*> of the current candidate
  resolved,      \* the process_access calls made so far: access, dominator, outcome
  node_regs,     \* per node: the first and second register compute_liveness_at_stubs sees
  live,          \* the array live of compute_liveness_at_stubs: one RegMask per block
  node_live,     \* ZBarrierSetC2State::_live: per node a RegMask, or NoMask
  worklist,      \* the Block_List worklist of compute_liveness_at_stubs
  regmask,       \* a RegMask object the operations of regmask.hpp are called on
  regmask_op,    \* the last operation called on regmask, with its arguments
  cont_allocator,\* ContiguousProvider::_cont_allocator: the fields of a ContiguousAllocator
  returned       \* the blocks the successful alloc calls returned since the last reset

vars == <<cfg, directive, barrier_data, sfp_barriers, lists, pc, pass, i, j,
          access_list, resolved, node_regs, live, node_live, worklist,
          regmask, regmask_op, cont_allocator, returned>>

\* what the elision pass leaves alone, and what the liveness pass leaves alone
live_vars == <<node_regs, live, node_live, worklist>>
elision_vars == <<directive, sfp_barriers, lists, pass, i, j, access_list, resolved>>
mask_vars == <<regmask, regmask_op>>
provider_vars == <<cont_allocator, returned>>

-----------------------------------------------------------------------------
(* Bounds of the model *)

\* number of basic blocks of a generated control-flow graph
MaxBlocks == 3
\* number of nodes of a generated program in the control-flow family
MaxNodes == 4
\* number of nodes of a generated program in the node-kind family
MaxKindNodes == 3

(* Program constants *)

\* Type::OffsetBot, the offset get_base_and_offset reports when it is unknown
OffsetBot == -2000000001
\* the bound of the def-chain walk
MaxNodeLimit == 80000
\* offsets of (access_offset >> 16) == 0
ShortOffsetLimit == 65536

Blocks == 1..MaxBlocks
NoNode == 0

-----------------------------------------------------------------------------
(* Sequences and sets *)

Last(s) == s[Len(s)]
Front(s) == SubSeq(s, 1, Len(s) - 1)
Range(s) == {s[k] : k \in 1..Len(s)}

Min(S) == CHOOSE x \in S : \A y \in S : x <= y

RECURSIVE SortedSeq(_)
SortedSeq(S) == IF S = {} THEN <<>> ELSE <<Min(S)>> \o SortedSeq(S \ {Min(S)})

-----------------------------------------------------------------------------
(* The control-flow graph *)

RECURSIVE ReachAvoiding(_, _, _)
\* the blocks reached from the blocks of `seen` along succ without entering `avoid`
ReachAvoiding(succ, seen, avoid) ==
  LET next == seen \cup {b \in UNION {succ[a] : a \in seen} : b # avoid}
  IN IF next = seen THEN seen ELSE ReachAvoiding(succ, next, avoid)

\* block 1 is the root block; every block is reachable from it
Reachable(succ) == ReachAvoiding(succ, {1}, 0)

\* Block::dominates: every path from the root to b passes through a
DomPairs(succ) ==
  {<<a, b>> \in Blocks \X Blocks :
     a = b \/ a = 1 \/ b \notin ReachAvoiding(succ, {1}, a)}

CFGs ==
  {succ \in [Blocks -> SUBSET Blocks] :
     /\ \A b \in Blocks : 1 \notin succ[b]
     /\ Reachable(succ) = Blocks}

Dominates(a, b) == <<a, b>> \in cfg.dom
\* a block whose predecessors are not seen
no_preds(b) == <<>>

Preds(b) == cfg.preds[b]

Nodes == 1..Len(cfg.node)
NodeOf(n) == cfg.node[n]
\* PhaseCFG::get_block_for_node
BlockOf(n) == cfg.node[n].blk
number_of_nodes(b) == Len(cfg.blocks[b])
\* Block::get_node, with the code's 0-based index
get_node(b, k) == cfg.blocks[b][k + 1]
\* block_index
block_index(b, n) == (CHOOSE k \in 1..Len(cfg.blocks[b]) : cfg.blocks[b][k] = n) - 1

is_Phi(n) == NodeOf(n).kind = "Phi"
is_SpillCopy(n) == NodeOf(n).kind = "SpillCopy"
is_CheckCastPP(n) == NodeOf(n).kind \in {"CheckCastPP"}
is_MachSafePoint(n) == NodeOf(n).kind \in {"SafePoint", "CallLeaf"}
is_MachCallLeaf(n) == NodeOf(n).kind = "CallLeaf"
is_Access(n) == NodeOf(n).kind \in {"LoadP", "StoreP", "LoadStore"}

\* MachNode::get_base_and_offset: the base node (NoNode for nullptr) and the offset
base_of(n) == NodeOf(n).in1
offset_of(n) == NodeOf(n).off

is_unknown(off) == off = OffsetBot
is_concrete(off) == off # OffsetBot

-----------------------------------------------------------------------------
(* Dominating barrier elision: the helpers *)

\* block_register_safepoints, were `from` not moved to the dominating access
register_safepoints_from(block, dom_access, from, to, mem, list) ==
  LET found == {k \in from..(to - 1) :
                  is_MachSafePoint(get_node(block, k))
                  /\ ~is_MachCallLeaf(get_node(block, k))}
  IN IF ~Dominates(BlockOf(dom_access), block)
     THEN list
     ELSE list \o [x \in 1..Cardinality(found) |->
                    [msfp |-> get_node(block, SortedSeq(found)[x]), mem |-> mem]]

\* block_register_safepoints: the safepoints of block[from, to) that are not
\* above the dominating access, pushed on access_list with the current def
block_register_safepoints(block, dom_access, from, to, mem, list) ==
  LET dom_access_block == BlockOf(dom_access)
      dom_access_index == block_index(dom_access_block, dom_access)
      from2 == IF dom_access_block = block /\ dom_access_index > from
               THEN dom_access_index ELSE from
      found == {k \in from2..(to - 1) :
                  is_MachSafePoint(get_node(block, k))
                  /\ ~is_MachCallLeaf(get_node(block, k))}
  IN IF ~Dominates(dom_access_block, block)
     THEN list
     ELSE list \o [x \in 1..Cardinality(found) |->
                    [msfp |-> get_node(block, SortedSeq(found)[x]), mem |-> mem]]

RECURSIVE look_through_node(_, _)
\* look_through_node: through CheckCastPP and, with look_through_spill, spill copies
look_through_node(node, look_through_spill) ==
  IF node = NoNode THEN NoNode
  ELSE LET new_node ==
             IF is_SpillCopy(node) /\ look_through_spill THEN NodeOf(node).in1
             ELSE IF is_CheckCastPP(node) THEN NodeOf(node).in1
             ELSE node
       IN IF new_node = node \/ new_node = NoNode THEN node
          ELSE look_through_node(new_node, look_through_spill)

\* the users of a node, in node order (fast_outs)
fast_outs(n) == SortedSeq({m \in Nodes : NodeOf(m).in1 = n})

RECURSIVE array_scan(_, _, _)
\* the for loop of is_array_allocation over the users of the current node:
\* "array" when a cast to a Java array pointer is met, else the best candidate
array_scan(outs, k, next) ==
  IF k > Len(outs) THEN [found |-> FALSE, next |-> next]
  ELSE LET succ == outs[k] IN
       IF is_Access(succ) \/ is_Phi(succ) THEN array_scan(outs, k + 1, next)
       ELSE IF is_CheckCastPP(succ)
       THEN IF NodeOf(succ).ary THEN [found |-> TRUE, next |-> next]
            ELSE array_scan(outs, k + 1, succ)
       ELSE IF is_SpillCopy(succ) /\ next = NoNode THEN array_scan(outs, k + 1, succ)
       ELSE array_scan(outs, k + 1, next)

RECURSIVE array_explore(_)
array_explore(current) ==
  LET r == array_scan(fast_outs(current), 1, NoNode) IN
  IF r.found THEN TRUE
  ELSE IF r.next = NoNode THEN FALSE
  ELSE array_explore(r.next)

\* is_array_allocation, were every allocation taken for an array
any_allocation_is_array(phi) == TRUE

\* is_array_allocation
is_array_allocation(phi) == array_explore(phi)

\* is_allocation: the phi joins the fast and the slow path of a TLAB allocation
is_allocation(node) == is_Phi(node) /\ NodeOf(node).alloc

RECURSIVE traverse_stack(_, _, _, _)
\* the while loop of analyze_dominating_barriers_impl_inner over the block stack;
\* c holds dom_block, dom_access, mem_block, mem_index and def_mem
traverse_stack(stack, visited, list, c) ==
  IF stack = <<>> THEN list
  ELSE LET block == Last(stack)
           rest == Front(stack)
       IN IF block \in visited THEN traverse_stack(rest, visited, list, c)
          ELSE IF ~Dominates(c.dom_block, block)
          THEN traverse_stack(rest, visited \cup {block}, list, c)
          ELSE IF block = c.mem_block
          THEN traverse_stack(rest, visited \cup {block},
                 block_register_safepoints(block, c.dom_access, c.mem_index,
                                           number_of_nodes(block), c.def_mem, list), c)
          ELSE traverse_stack(rest \o Preds(block), visited \cup {block},
                 block_register_safepoints(block, c.dom_access, 0,
                                           number_of_nodes(block), c.def_mem, list), c)

\* analyze_dominating_barriers_impl_inner, were it to look for safepoints in the
\* block of the access only, never in the blocks above it
inner_access_block_only(dom_block, dom_access, access, def_mem, list) ==
  LET access_block == BlockOf(access)
      def_block == BlockOf(def_mem)
      access_index == block_index(access_block, access)
      mem_index == block_index(def_block, def_mem)
  IN IF access_block = def_block
     THEN IF mem_index < access_index
          THEN block_register_safepoints(def_block, dom_access, mem_index + 1,
                                         access_index, def_mem, list)
          ELSE list
     ELSE block_register_safepoints(access_block, dom_access, 0, access_index,
                                    def_mem, list)

\* analyze_dominating_barriers_impl_inner: the safepoints between def_mem and access
analyze_dominating_barriers_impl_inner(dom_block, dom_access, access, def_mem, list) ==
  LET access_block == BlockOf(access)
      def_block == BlockOf(def_mem)
      access_index == block_index(access_block, access)
      mem_block == BlockOf(def_mem)
      mem_index == block_index(def_block, def_mem)
  IN IF access_block = def_block
     THEN IF mem_index < access_index
          THEN block_register_safepoints(mem_block, dom_access, mem_index + 1,
                                         access_index, def_mem, list)
          ELSE list
     ELSE IF Dominates(mem_block, access_block)
     THEN traverse_stack(Preds(access_block), {},
            block_register_safepoints(access_block, dom_access, 0, access_index,
                                      def_mem, list),
            [dom_block |-> dom_block, dom_access |-> dom_access,
             mem_block |-> mem_block, mem_index |-> mem_index, def_mem |-> def_mem])
     ELSE list

\* next_def, were the test for a spill copy missing
next_def_of_cast_only(node) == is_CheckCastPP(node)

\* next_def: the input of a cast or a spill copy; anything else is a fatal error
next_def_ok(node) == is_CheckCastPP(node) \/ is_SpillCopy(node)
next_def(node) == NodeOf(node).in1

RECURSIVE walk_def_chain(_, _, _, _, _, _, _)
\* the while (true) loop of analyze_dominating_barriers_impl: walks the def chain
\* of the access up to the dominating access, collecting the safepoints met
walk_def_chain(dom_mem_block, dom, dom_mem, node, node_def, list, limit) ==
  LET found == analyze_dominating_barriers_impl_inner(dom_mem_block, dom, node,
                                                      node_def, list)
  IN IF is_Phi(node_def) THEN [list |-> found, fatal |-> FALSE]
     ELSE IF node_def = dom_mem THEN [list |-> found, fatal |-> FALSE]
     ELSE IF ~next_def_ok(node_def) THEN [list |-> found, fatal |-> TRUE]
     ELSE IF next_def(node_def) = NoNode THEN [list |-> found, fatal |-> TRUE]
     ELSE IF limit + 1 >= MaxNodeLimit THEN [list |-> found, fatal |-> TRUE]
     ELSE walk_def_chain(dom_mem_block, dom, dom_mem, node_def, next_def(node_def),
                         found, limit + 1)

\* the checks on a candidate, were the position check within a block left out
candidate_at_any_position(access, dom) ==
  LET access_offset == offset_of(access)
      access_mem == look_through_node(base_of(access), TRUE)
  IN /\ dom # access
     /\ IF is_Phi(dom)
        THEN /\ dom = access_mem
             /\ ~(is_unknown(access_offset) /\ ~is_array_allocation(dom))
        ELSE LET dom_mem == look_through_node(base_of(dom), TRUE)
                 mem_offset == offset_of(dom)
             IN /\ dom_mem # NoNode
                /\ is_concrete(access_offset)
                /\ is_concrete(mem_offset)
                /\ dom_mem = access_mem
                /\ mem_offset = access_offset
     /\ Dominates(BlockOf(dom), BlockOf(access))

\* the checks of analyze_dominating_barriers_impl on candidate dom for access:
\* TRUE when the candidate is taken (none of the continue statements applies)
candidate_accepted(access, dom) ==
  LET access_offset == offset_of(access)
      access_mem == look_through_node(base_of(access), TRUE)
      access_block == BlockOf(access)
      access_index == block_index(access_block, access)
      dom_block == BlockOf(dom)
  IN /\ dom # access
     /\ IF is_Phi(dom)
        THEN /\ dom = access_mem
             /\ ~(is_unknown(access_offset) /\ ~is_array_allocation(dom))
        ELSE LET dom_mem == look_through_node(base_of(dom), TRUE)
                 mem_offset == offset_of(dom)
             IN /\ dom_mem # NoNode
                /\ is_concrete(access_offset)
                /\ is_concrete(mem_offset)
                /\ dom_mem = access_mem
                /\ mem_offset = access_offset
     /\ Dominates(dom_block, access_block)
     /\ ~(access_block = dom_block /\ access_index < block_index(dom_block, dom))

\* ZBarrierTypeMask
ZBarrierTypeMask == {"Strong", "Weak", "Phantom"}
has_barrier_flag(n, flag) == flag \in barrier_data[n]

\* a mark that adds no barrier data
add_no_barrier_data(bd, mach) == bd

\* mark_mach_barrier_dom_elided
mark_mach_barrier_dom_elided(bd, mach) ==
  [bd EXCEPT ![mach] = @ \cup {"Elided", "DomElided"}]

\* mark_mach_barrier_sab_elided
mark_mach_barrier_sab_elided(bd, mach) ==
  [bd EXCEPT ![mach] = @ \cup {"Elided", "SABElided"}]

\* mark_mach_barrier_sab_bailout: no flag changes
mark_mach_barrier_sab_bailout(bd, mach) == bd

\* MachSafePointNode::record_barrier: one more record on the safepoint's list
record_barrier(recs, sfp, access, mem, dom_access) ==
  [recs EXCEPT ![sfp] = Append(@, [access |-> access, mem |-> mem, dom |-> dom_access])]

\* the loop of process_access, were the records dropped instead of recorded
record_nothing(recs, list, access, dom_access) == recs

RECURSIVE record_all(_, _, _, _)
\* the while loop of process_access: pops every SafepointAccessRecord and records it
record_all(recs, list, access, dom_access) ==
  IF list = <<>> THEN recs
  ELSE record_all(record_barrier(recs, Last(list).msfp, access, Last(list).mem, dom_access),
                  Front(list), access, dom_access)

\* the three locals process_access computes from the access
offset_is_short(access_offset) == access_offset >= 0 /\ access_offset < ShortOffsetLimit
offset_is_known(access_offset) == ~is_unknown(access_offset)
is_derived(access) == NodeOf(access).derived

\* the branch process_access takes
process_outcome(access, list, access_offset) ==
  IF Len(list) = 0
  THEN IF directive.UseDomBarrierEliminationOption THEN "dom_elided" ELSE "dom_skipped"
  ELSE IF directive.UseSafepointAttachedBarriersOption
  THEN IF offset_is_known(access_offset) /\ offset_is_short(access_offset)
          /\ ~is_derived(access)
       THEN "sab_elided" ELSE "sab_bailout"
  ELSE "sab_skipped"

-----------------------------------------------------------------------------
(* analyze_dominating_barriers as a state machine *)

\* the lists analyze_dominating_barriers_impl is called with in the current pass
Accesses == lists.accesses[pass]
Dominators == lists.dominators[pass]
CurAccess == Accesses[i + 1]
CurDom == Dominators[j + 1]

\* the nodes in collection order: block by block, in block order
RECURSIVE CollectionOrder(_)
CollectionOrder(b) ==
  IF b > Len(cfg.blocks) THEN <<>> ELSE cfg.blocks[b] \o CollectionOrder(b + 1)

SelectNodes(order, P(_)) == SelectSeq(order, P)

IsLoadAccess(n) ==
  NodeOf(n).kind = "LoadP" /\ has_barrier_flag(n, "Strong")
  /\ ~has_barrier_flag(n, "NoKeepalive")
IsStoreAccess(n) ==
  NodeOf(n).kind = "StoreP" /\ barrier_data[n] \cap ZBarrierTypeMask # {}
IsAtomicAccess(n) ==
  NodeOf(n).kind = "LoadStore" /\ barrier_data[n] \cap ZBarrierTypeMask # {}
IsLoadDominator(n) ==
  is_allocation(n) \/ IsLoadAccess(n) \/ IsStoreAccess(n) \/ IsAtomicAccess(n)
IsStoreDominator(n) == is_allocation(n) \/ IsStoreAccess(n) \/ IsAtomicAccess(n)
\* the dominators of atomics, were allocations among them
IsAtomicDominatorWithAllocations(n) ==
  is_allocation(n) \/ IsStoreAccess(n) \/ IsAtomicAccess(n)
IsAtomicDominator(n) == IsStoreAccess(n) \/ IsAtomicAccess(n)

\* Step 1 of analyze_dominating_barriers: find accesses and allocations
Collect ==
  /\ pc = "collect"
  /\ LET order == CollectionOrder(1) IN
     lists' = [accesses |-> <<SelectNodes(order, IsLoadAccess),
                              SelectNodes(order, IsStoreAccess),
                              SelectNodes(order, IsAtomicAccess)>>,
               dominators |-> <<SelectNodes(order, IsLoadDominator),
                                SelectNodes(order, IsStoreDominator),
                                SelectNodes(order, IsAtomicDominator)>>]
  /\ pc' = "scan"
  /\ pass' = 1 /\ i' = 0 /\ j' = 0
  /\ UNCHANGED live_vars
  /\ UNCHANGED mask_vars /\ UNCHANGED provider_vars
  /\ UNCHANGED <<cfg, directive, barrier_data, sfp_barriers, access_list, resolved>>

\* the two continue statements at the top of the loop over accesses
AccessIsSkipped ==
  \/ has_barrier_flag(CurAccess, "Elided")
  \/ look_through_node(base_of(CurAccess), TRUE) = NoNode

\* an access that is already elided, or has no address information
SkipAccess ==
  /\ pc = "scan" /\ i < Len(Accesses) /\ j = 0
  /\ AccessIsSkipped
  /\ i' = i + 1
  /\ UNCHANGED live_vars
  /\ UNCHANGED mask_vars /\ UNCHANGED provider_vars
  /\ UNCHANGED <<cfg, directive, barrier_data, sfp_barriers, lists, pc, pass, j,
                 access_list, resolved>>

InCandidateLoop == pc = "scan" /\ i < Len(Accesses) /\ ~(j = 0 /\ AccessIsSkipped)

\* a candidate dominator that one of the continue statements rejects
SkipCandidate ==
  /\ InCandidateLoop /\ j < Len(Dominators)
  /\ ~candidate_accepted(CurAccess, CurDom)
  /\ j' = j + 1
  /\ UNCHANGED live_vars
  /\ UNCHANGED mask_vars /\ UNCHANGED provider_vars
  /\ UNCHANGED <<cfg, directive, barrier_data, sfp_barriers, lists, pc, pass, i,
                 access_list, resolved>>

\* an accepted candidate: walk the def chain, recording the safepoints met
DefChainWalk ==
  /\ InCandidateLoop /\ j < Len(Dominators)
  /\ candidate_accepted(CurAccess, CurDom)
  /\ LET dom == CurDom
         dom_mem == IF is_Phi(dom) THEN NoNode ELSE look_through_node(base_of(dom), TRUE)
         dom_mem_block == IF dom_mem # NoNode THEN BlockOf(dom_mem) ELSE BlockOf(dom)
         r == walk_def_chain(dom_mem_block, dom, dom_mem, CurAccess,
                             base_of(CurAccess), <<>>, 0)
     IN /\ access_list' = r.list
        /\ pc' = IF r.fatal THEN "fatal" ELSE "process"
  /\ UNCHANGED live_vars
  /\ UNCHANGED mask_vars /\ UNCHANGED provider_vars
  /\ UNCHANGED <<cfg, directive, barrier_data, sfp_barriers, lists, pass, i, j,
                 resolved>>

\* process_access on the safepoints found for the current access and dominator
ProcessAccess ==
  /\ pc = "process"
  /\ LET access == CurAccess
         dom == CurDom
         outcome == process_outcome(access, access_list, offset_of(access))
     IN /\ barrier_data' =
             CASE outcome = "dom_elided" -> mark_mach_barrier_dom_elided(barrier_data, access)
               [] outcome = "sab_elided" -> mark_mach_barrier_sab_elided(barrier_data, access)
               [] outcome = "sab_bailout" -> mark_mach_barrier_sab_bailout(barrier_data, access)
               [] OTHER -> barrier_data
        /\ sfp_barriers' =
             IF outcome = "sab_elided"
             THEN record_all(sfp_barriers, access_list, access, dom)
             ELSE sfp_barriers
        /\ resolved' = Append(resolved,
             [access |-> access, dom |-> dom, outcome |-> outcome,
              found |-> access_list,
              was_elided |-> has_barrier_flag(access, "Elided")])
  /\ access_list' = <<>>
  /\ j' = j + 1
  /\ pc' = "scan"
  /\ UNCHANGED live_vars
  /\ UNCHANGED mask_vars /\ UNCHANGED provider_vars
  /\ UNCHANGED <<cfg, directive, lists, pass, i>>

\* every candidate dominator of the current access has been tried
NextAccess ==
  /\ InCandidateLoop /\ j = Len(Dominators)
  /\ i' = i + 1 /\ j' = 0
  /\ UNCHANGED live_vars
  /\ UNCHANGED mask_vars /\ UNCHANGED provider_vars
  /\ UNCHANGED <<cfg, directive, barrier_data, sfp_barriers, lists, pc, pass,
                 access_list, resolved>>

\* Step 2 of analyze_dominating_barriers: loads, then stores, then atomics
NextPass ==
  /\ pc = "scan" /\ i = Len(Accesses)
  /\ IF pass < 3
     THEN pass' = pass + 1 /\ pc' = pc
     ELSE pass' = pass /\ pc' = "done"
  /\ i' = 0 /\ j' = 0
  /\ UNCHANGED live_vars
  /\ UNCHANGED mask_vars /\ UNCHANGED provider_vars
  /\ UNCHANGED <<cfg, directive, barrier_data, sfp_barriers, lists, access_list,
                 resolved>>

-----------------------------------------------------------------------------
(* The programs the pass is run on *)

\* a node template: kind, what the address input refers to ("X": the address
\* definition of the program, "C": its cast or spill copy, "none"), the offset
\* and the barrier data the node starts with
Tmpl(kind, base, off, ary, alloc, bd) ==
  [kind |-> kind, base |-> base, off |-> off, ary |-> ary, alloc |-> alloc, bd |-> bd]

TAlloc == Tmpl("Phi", "none", 0, FALSE, TRUE, {})
TPhi == Tmpl("Phi", "none", 0, FALSE, FALSE, {})
TDef == Tmpl("Mach", "none", 0, FALSE, FALSE, {})
TSpill == Tmpl("SpillCopy", "X", 0, FALSE, FALSE, {})
TCast == Tmpl("CheckCastPP", "X", 0, FALSE, FALSE, {})
TCastAry == Tmpl("CheckCastPP", "X", 0, TRUE, FALSE, {})
TSafePoint == Tmpl("SafePoint", "none", 0, FALSE, FALSE, {})
TCallLeaf == Tmpl("CallLeaf", "none", 0, FALSE, FALSE, {})
TAccess(kind, base, off, bd) == Tmpl(kind, base, off, FALSE, FALSE, bd)

IsAddressDef(t) == t.kind \in {"Phi", "Mach"}
IsChainNode(t) == t.kind \in {"SpillCopy", "CheckCastPP"}

\* the node a template's address input refers to in the program ts
ResolveBase(ts, t) ==
  IF t.base = "X" THEN CHOOSE k \in 1..Len(ts) : IsAddressDef(ts[k])
  ELSE IF t.base = "C" THEN CHOOSE k \in 1..Len(ts) : IsChainNode(ts[k])
  ELSE NoNode

\* one address definition, at most one cast or spill copy, every input resolvable
WellFormedProgram(ts) ==
  /\ Cardinality({k \in 1..Len(ts) : IsAddressDef(ts[k])}) = 1
  /\ Cardinality({k \in 1..Len(ts) : IsChainNode(ts[k])}) <= 1
  /\ \A k \in 1..Len(ts) :
        ts[k].base = "C" => \E m \in 1..Len(ts) : IsChainNode(ts[m])

\* definitions dominate their uses (the graph is in SSA form)
DefsDominateUses(ts, blk, dom) ==
  \A k \in 1..Len(ts) :
    LET m == ResolveBase(ts, ts[k]) IN
    m # NoNode => /\ <<blk[m], blk[k]>> \in dom
                  /\ blk[m] = blk[k] => m < k

\* nodes are numbered in collection order: block by block
InBlockOrder(blk) == \A k \in 1..(Len(blk) - 1) : blk[k] <= blk[k + 1]

MakeCfg(succ, ts, blk, derived) ==
  [succ |-> succ,
   preds |-> [b \in Blocks |-> SortedSeq({a \in Blocks : b \in succ[a]})],
   dom |-> DomPairs(succ),
   node |-> [k \in 1..Len(ts) |->
               [kind |-> ts[k].kind, blk |-> blk[k], in1 |-> ResolveBase(ts, ts[k]),
                off |-> ts[k].off, ary |-> ts[k].ary, alloc |-> ts[k].alloc,
                derived |-> derived]],
   blocks |-> [b \in Blocks |-> SelectSeq([k \in 1..Len(ts) |-> k],
                                           LAMBDA k : blk[k] = b)]]

\* the control-flow family: one allocation, an optional spill copy, a store,
\* safepoints and loads of one field, spread over every control-flow graph
ShapeTemplates ==
  {TAlloc, TSpill, TSafePoint,
   TAccess("StoreP", "X", 8, {"Strong"}),
   TAccess("LoadP", "X", 8, {"Strong"}),
   TAccess("LoadP", "C", 8, {"Strong"})}

\* the node-kind family: every kind of node, offset and barrier data, in one block
KindTemplates ==
  {TSpill, TCast, TCastAry, TSafePoint, TCallLeaf,
   TAccess("LoadP", "X", 8, {"Weak"}),
   TAccess("LoadP", "X", 8, {"Strong", "NoKeepalive"}),
   TAccess("LoadP", "X", 8, {"Strong", "Elided"}),
   TAccess("LoadP", "none", 8, {"Strong"}),
   TAccess("StoreP", "X", 8, {})}
  \cup {TAccess(kind, base, off, {"Strong"}) :
          kind \in {"LoadP", "StoreP", "LoadStore"}, base \in {"X", "C"},
          off \in {8, 16, OffsetBot, ShortOffsetLimit + 8}}

\* what a run is configured with: the two directive options, and whether the
\* accesses are to derived pointers
Config(dom, sab, derived) ==
  [UseDomBarrierEliminationOption |-> dom, UseSafepointAttachedBarriersOption |-> sab,
   derived |-> derived]
ShapeConfigs == {Config(TRUE, TRUE, FALSE), Config(TRUE, TRUE, TRUE)}
KindConfigs ==
  {Config(TRUE, TRUE, FALSE), Config(TRUE, TRUE, TRUE), Config(FALSE, TRUE, FALSE),
   Config(TRUE, FALSE, FALSE)}

\* the straight-line graph of the node-kind family
ChainCfg == [b \in Blocks |-> IF b < MaxBlocks THEN {b + 1} ELSE {}]

InitPass(c, conf, ts) ==
  /\ cfg = c
  /\ directive = [UseDomBarrierEliminationOption |-> conf.UseDomBarrierEliminationOption,
                  UseSafepointAttachedBarriersOption |->
                    conf.UseSafepointAttachedBarriersOption]
  /\ barrier_data = [n \in 1..Len(ts) |-> ts[n].bd]
  /\ sfp_barriers = [n \in 1..Len(c.node) |-> <<>>]
  /\ lists = [accesses |-> <<<<>>, <<>>, <<>>>>, dominators |-> <<<<>>, <<>>, <<>>>>]
  /\ pc = "collect"
  /\ pass = 1 /\ i = 0 /\ j = 0
  /\ access_list = <<>>
  /\ resolved = <<>>
  /\ node_regs = <<>> /\ live = <<>> /\ node_live = <<>> /\ worklist = <<>>
  /\ regmask = <<>> /\ regmask_op = <<>>
  /\ cont_allocator = <<>> /\ returned = <<>>

HasLoad(ts) == \E k \in 1..Len(ts) : ts[k].kind = "LoadP"

InitShapes ==
  \E succ \in CFGs : \E n \in 2..MaxNodes : \E ts \in [1..n -> ShapeTemplates] :
    /\ WellFormedProgram(ts) /\ HasLoad(ts)
    /\ \E blk \in [1..n -> Blocks] :
         /\ InBlockOrder(blk)
         /\ DefsDominateUses(ts, blk, DomPairs(succ))
         /\ \E conf \in ShapeConfigs :
              InitPass(MakeCfg(succ, ts, blk, conf.derived), conf, ts)

InitKinds ==
  \E n \in 2..MaxKindNodes : \E x \in {TAlloc, TDef} :
  \E rest \in [1..(n - 1) -> KindTemplates] :
    LET ts == <<x>> \o rest
        blk == [k \in 1..n |-> 1]
    IN /\ WellFormedProgram(ts)
       /\ DefsDominateUses(ts, blk, DomPairs(ChainCfg))
       /\ \E conf \in KindConfigs :
            InitPass(MakeCfg(ChainCfg, ts, blk, conf.derived), conf, ts)

Init == InitShapes \/ InitKinds

Next ==
  \/ Collect
  \/ SkipAccess
  \/ SkipCandidate
  \/ DefChainWalk
  \/ ProcessAccess
  \/ NextAccess
  \/ NextPass

Spec == Init /\ [][Next]_vars

-----------------------------------------------------------------------------
(* RegMask: a register mask as an array of words; a word is the set of the *)
(* positions of its one bits                                               *)

\* BitsPerWord and _RM_SIZE, the base size of a mask in words, scaled down
BitsPerWord == 2
RM_SIZE == 2
RM_MAX == RM_SIZE - 1
\* OptoReg::Bad
Bad == -1

ZeroWord == {}
FullWord == 0..(BitsPerWord - 1)

RECURSIVE round_up_from(_, _)
round_up_from(p, n) == IF p >= n THEN p ELSE round_up_from(2 * p, n)
round_up_power_of_2(n) == round_up_from(1, n)

\* RegMask(): the empty mask
EmptyMask ==
  [rm_up |-> [k \in 1..RM_SIZE |-> ZeroWord], rm_size |-> RM_SIZE, offset |-> 0,
   all_stack |-> FALSE, lwm |-> RM_MAX, hwm |-> 0]

rm_up(m, k) == m.rm_up[k + 1]
rm_max(m) == m.rm_size - 1
rm_size_bits(m) == m.rm_size * BitsPerWord
offset_bits(m) == m.offset * BitsPerWord
is_AllStack(m) == m.all_stack

\* a _set_range that writes nothing
set_no_range(m, start, value, length) == m

\* _set_range: length words from word start on are set to value
set_range(m, start, value, length) ==
  [m EXCEPT !.rm_up = [k \in 1..Len(@) |->
                         IF k - 1 >= start /\ k - 1 < start + length THEN value ELSE @[k]]]

\* _grow, were the new words always filled with zeros
grow_zero_filled(m, min_size) ==
  IF min_size > m.rm_size
  THEN LET new_size == round_up_power_of_2(min_size) IN
       [m EXCEPT !.rm_size = new_size,
                 !.rm_up = @ \o [k \in 1..(new_size - m.rm_size) |-> ZeroWord]]
  ELSE m

\* _grow, were the high watermark left where it is when the new words of an
\* all-stack mask are filled
grow_keeping_hwm(m, min_size) ==
  IF min_size > m.rm_size
  THEN LET new_size == round_up_power_of_2(min_size)
           old_size == m.rm_size
           fill == IF is_AllStack(m) THEN FullWord ELSE ZeroWord
           grown == [m EXCEPT !.rm_size = new_size,
                              !.rm_up = @ \o [k \in 1..(new_size - old_size) |-> ZeroWord]]
       IN set_range(grown, old_size, fill, new_size - old_size)
  ELSE m

\* _grow with init = true: room for at least min_size words
grow(m, min_size) ==
  IF min_size > m.rm_size
  THEN LET new_size == round_up_power_of_2(min_size)
           old_size == m.rm_size
           fill == IF is_AllStack(m) THEN FullWord ELSE ZeroWord
           grown == [m EXCEPT !.rm_size = new_size,
                              !.rm_up = @ \o [k \in 1..(new_size - old_size) |-> ZeroWord],
                              !.hwm = IF is_AllStack(m) THEN new_size - 1 ELSE @]
       IN set_range(grown, old_size, fill, new_size - old_size)
  ELSE m

\* valid_watermarks
valid_watermarks(m) ==
  /\ m.hwm < m.rm_size /\ m.lwm < m.rm_size
  /\ \A k \in 0..(m.lwm - 1) : rm_up(m, k) = ZeroWord
  /\ \A k \in (m.hwm + 1)..(m.rm_size - 1) : rm_up(m, k) = ZeroWord

\* Member
Member(m, reg, include_all_stack) ==
  LET r == reg - offset_bits(m) IN
  IF r < 0 THEN FALSE
  ELSE IF r >= rm_size_bits(m) THEN include_all_stack /\ is_AllStack(m)
  ELSE (r % BitsPerWord) \in rm_up(m, r \div BitsPerWord)

\* is_NotEmpty: some bit in the words between the watermarks
\* a mask that never reads as empty
always_NotEmpty(m) == TRUE

is_NotEmpty(m) == \E k \in m.lwm..m.hwm : rm_up(m, k) # ZeroWord

\* Insert
Insert(m, reg) ==
  LET r == reg - offset_bits(m)
      index == r \div BitsPerWord
      g == grow(m, index + 1)
  IN [g EXCEPT !.hwm = IF index > @ THEN index ELSE @,
               !.lwm = IF index < @ THEN index ELSE @,
               !.rm_up[index + 1] = @ \cup {r % BitsPerWord}]

\* the two assertions of Remove: the register is inside the mask
inside_mask(m, reg) ==
  reg - offset_bits(m) >= 0 /\ reg - offset_bits(m) < rm_size_bits(m)

\* a Remove that leaves the bit set
remove_nothing(m, reg) == m

\* Remove
Remove(m, reg) ==
  LET r == reg - offset_bits(m) IN
  [m EXCEPT !.rm_up[(r \div BitsPerWord) + 1] = @ \ {r % BitsPerWord}]

\* an assignment in place of the union
overwrite(m, rm) == rm

\* OR
OR(m, rm) ==
  LET g == grow(m, rm.rm_size)
      lwm == IF g.lwm > rm.lwm THEN rm.lwm ELSE g.lwm
      hwm == IF g.hwm < rm.hwm THEN rm.hwm ELSE g.hwm
      ored == [g EXCEPT !.lwm = lwm, !.hwm = hwm,
                        !.rm_up = [k \in 1..Len(@) |->
                                     IF k - 1 >= lwm /\ k - 1 <= hwm /\ k - 1 < rm.rm_size
                                     THEN @[k] \cup rm.rm_up[k] ELSE @[k]]]
      gap == IF is_AllStack(rm) /\ rm.rm_size < ored.rm_size
             THEN [set_range(ored, rm.rm_size, FullWord, ored.rm_size - rm.rm_size)
                     EXCEPT !.hwm = rm_max(ored)]
             ELSE ored
  IN [gap EXCEPT !.all_stack = is_AllStack(g) \/ is_AllStack(rm)]

\* SUBTRACT, were the all-stack flag of the mask kept as it is
subtract_keeping_flag(m, rm) ==
  LET g == grow(m, rm.rm_size)
      hwm == IF g.hwm < rm.hwm THEN g.hwm ELSE rm.hwm
      lwm == IF g.lwm > rm.lwm THEN g.lwm ELSE rm.lwm
  IN [g EXCEPT !.rm_up = [k \in 1..Len(@) |->
                            IF k - 1 >= lwm /\ k - 1 <= hwm
                            THEN @[k] \ rm.rm_up[k] ELSE @[k]]]

\* SUBTRACT
SUBTRACT(m, rm) ==
  LET g == grow(m, rm.rm_size)
      hwm == IF g.hwm < rm.hwm THEN g.hwm ELSE rm.hwm
      lwm == IF g.lwm > rm.lwm THEN g.lwm ELSE rm.lwm
      sub == [g EXCEPT !.rm_up = [k \in 1..Len(@) |->
                                    IF k - 1 >= lwm /\ k - 1 <= hwm
                                    THEN @[k] \ rm.rm_up[k] ELSE @[k]]]
      gap == IF is_AllStack(rm) /\ sub.hwm > rm_max(rm)
             THEN [set_range(sub, rm.rm_size, ZeroWord, sub.hwm - rm_max(rm))
                     EXCEPT !.hwm = rm_max(rm)]
             ELSE sub
  IN [gap EXCEPT !.all_stack = is_AllStack(g) /\ ~is_AllStack(rm)]

\* AND
AND(m, rm) ==
  LET g == grow(m, rm.rm_size)
      anded == [g EXCEPT !.rm_up = [k \in 1..Len(@) |->
                                      IF k - 1 >= g.lwm /\ k - 1 <= g.hwm /\ k - 1 < rm.rm_size
                                      THEN @[k] \cap rm.rm_up[k] ELSE @[k]]]
      gap == IF ~is_AllStack(rm) /\ anded.hwm > rm_max(rm)
             THEN [set_range(anded, rm.rm_size, ZeroWord, anded.hwm - rm_max(rm))
                     EXCEPT !.hwm = rm_max(rm)]
             ELSE anded
      lwm == IF gap.lwm < rm.lwm THEN rm.lwm ELSE gap.lwm
      hwm == IF gap.hwm > rm.hwm /\ ~(is_AllStack(rm) /\ gap.hwm > rm_max(rm))
             THEN rm.hwm ELSE gap.hwm
  IN [gap EXCEPT !.lwm = lwm, !.hwm = hwm,
                 !.all_stack = is_AllStack(g) /\ is_AllStack(rm)]

\* a subtraction that takes the words of rm at the indices of this mask
subtract_inner_same_index(m, rm) ==
  LET hwm == IF m.hwm < rm.hwm THEN m.hwm ELSE rm.hwm
      lwm == IF m.lwm > rm.lwm THEN m.lwm ELSE rm.lwm
  IN [m EXCEPT !.rm_up = [k \in 1..Len(@) |->
                            IF k - 1 >= lwm /\ k - 1 <= hwm
                            THEN @[k] \ rm.rm_up[k] ELSE @[k]]]

\* SUBTRACT_inner: the masks may have different offsets
SUBTRACT_inner(m, rm) ==
  LET rm_index_diff == m.offset - rm.offset
      rm_hwm_tr == rm.hwm - rm_index_diff
      rm_lwm_tr == rm.lwm - rm_index_diff
      hwm == IF m.hwm < rm_hwm_tr THEN m.hwm ELSE rm_hwm_tr
      lwm == IF m.lwm > rm_lwm_tr THEN m.lwm ELSE rm_lwm_tr
  IN [m EXCEPT !.rm_up = [k \in 1..Len(@) |->
                            IF k - 1 >= lwm /\ k - 1 <= hwm
                            THEN @[k] \ rm.rm_up[k + rm_index_diff] ELSE @[k]]]

\* set_AllStack
set_AllStack(m, value) == [m EXCEPT !.all_stack = value]

\* Clear
Clear(m) ==
  set_AllStack(set_range([m EXCEPT !.lwm = rm_max(m), !.hwm = 0], 0, ZeroWord, m.rm_size),
               FALSE)

\* Set_All_From_Offset
Set_All_From_Offset(m) ==
  set_AllStack(set_range([m EXCEPT !.lwm = 0, !.hwm = rm_max(m)], 0, FullWord, m.rm_size),
               TRUE)

\* Set_All_From
Set_All_From(m, reg) ==
  LET r == reg - offset_bits(m)
      index == r \div BitsPerWord
      g == grow(m, index + 1)
      from == [g EXCEPT !.rm_up[index + 1] =
                          @ \cup {b \in FullWord : b >= r % BitsPerWord}]
      above == IF index < rm_max(from)
               THEN set_range(from, index + 1, FullWord, rm_max(from) - index)
               ELSE from
  IN set_AllStack([above EXCEPT !.lwm = IF index < @ THEN index ELSE @,
                                !.hwm = rm_max(above)],
                  TRUE)

\* is_AllStack_only
is_AllStack_only(m) == ~is_NotEmpty(m) /\ is_AllStack(m)

\* a rollover that keeps the offset
rollover_in_place(m) == Set_All_From_Offset(m)

\* rollover
rollover(m) == Set_All_From_Offset([m EXCEPT !.offset = @ + m.rm_size])

\* a word of memory that has not been written
Uninitialized == {-1}

\* _grow with init = false: the new words are not written
grow_uninitialized(m, min_size) ==
  IF min_size > m.rm_size
  THEN LET new_size == round_up_power_of_2(min_size) IN
       [m EXCEPT !.rm_size = new_size,
                 !.rm_up = @ \o [k \in 1..(new_size - m.rm_size) |-> Uninitialized]]
  ELSE m

\* _copy
copy(m, src) ==
  LET base == [m EXCEPT !.hwm = src.hwm, !.lwm = src.lwm,
                        !.rm_up = [k \in 1..Len(@) |->
                                     IF k <= RM_SIZE THEN src.rm_up[k] ELSE @[k]],
                        !.all_stack = src.all_stack]
      ext == IF src.rm_size > RM_SIZE
             THEN [grow_uninitialized(base, src.rm_size)
                     EXCEPT !.rm_up = [k \in 1..Len(@) |->
                                         IF k > RM_SIZE /\ k <= src.rm_size
                                         THEN src.rm_up[k] ELSE @[k]]]
             ELSE base
      gap == IF src.rm_size < ext.rm_size
             THEN set_range([ext EXCEPT !.hwm = IF is_AllStack(src) THEN rm_max(ext) ELSE @],
                            src.rm_size,
                            IF is_AllStack(src) THEN FullWord ELSE ZeroWord,
                            ext.rm_size - src.rm_size)
             ELSE ext
  IN gap

\* RegMask(const RegMask& rm): the copy constructor
copy_constructed(src) ==
  copy([rm_up |-> [k \in 1..RM_SIZE |-> Uninitialized], rm_size |-> RM_SIZE,
        offset |-> src.offset, all_stack |-> FALSE, lwm |-> 0, hwm |-> 0], src)

\* find_lowest_bit, find_highest_bit
find_lowest_bit(bits) == CHOOSE b \in bits : \A c \in bits : b <= c
find_highest_bit(bits) == CHOOSE b \in bits : \A c \in bits : b >= c

\* find_first_elem
find_first_elem(m) ==
  LET words == {k \in m.lwm..m.hwm : rm_up(m, k) # ZeroWord} IN
  IF words = {} THEN Bad
  ELSE LET k == CHOOSE x \in words : \A y \in words : x <= y
       IN offset_bits(m) + k * BitsPerWord + find_lowest_bit(rm_up(m, k))

\* a search that looks at the word of the high watermark only
find_last_elem_at_hwm(m) ==
  IF rm_up(m, m.hwm) = ZeroWord THEN Bad
  ELSE offset_bits(m) + m.hwm * BitsPerWord + find_highest_bit(rm_up(m, m.hwm))

\* find_last_elem
find_last_elem(m) ==
  LET words == {k \in m.lwm..m.hwm : rm_up(m, k) # ZeroWord} IN
  IF words = {} THEN Bad
  ELSE LET k == CHOOSE x \in words : \A y \in words : x >= y
       IN offset_bits(m) + k * BitsPerWord + find_highest_bit(rm_up(m, k))

\* Member(reg): include_all_stack takes its default
Member_default(m, reg) == Member(m, reg, FALSE)

\* Member_including_AllStack
Member_including_AllStack(m, reg) == Member(m, reg, TRUE)

\* Size: the number of bits stored in the words of the mask; the all-stack
\* flag is not counted
RECURSIVE population_count_from(_, _)
population_count_from(m, k) ==
  IF k >= m.rm_size THEN 0
  ELSE Cardinality(rm_up(m, k)) + population_count_from(m, k + 1)
Size(m) == population_count_from(m, 0)

\* the positions, counted from the offset of the mask, whose bit is stored
positions(m) == {r \in 0..(rm_size_bits(m) - 1) : (r % BitsPerWord) \in rm_up(m, r \div BitsPerWord)}

\* the aligned group of the given size a position lies in
aligned_set(r, size) == ((r \div size) * size)..((r \div size) * size + size - 1)

\* the mask with the bits of the given positions stored in its words. A group
\* can span several words of the width of this model, so the watermarks are
\* widened to the words that hold a bit.
with_positions(m, rs) ==
  LET words == {r \div BitsPerWord : r \in rs} IN
  [m EXCEPT !.rm_up = [k \in 1..m.rm_size |->
                         {b \in 0..(BitsPerWord - 1) : (k - 1) * BitsPerWord + b \in rs}],
            !.lwm = IF \E w \in words : w < @ THEN CHOOSE w \in words : \A v \in words : w <= v
                    ELSE @,
            !.hwm = IF \E w \in words : w > @ THEN CHOOSE w \in words : \A v \in words : w >= v
                    ELSE @]

\* clear_to_sets: leave only aligned adjacent bit sets of size
clear_to_sets(m, size) ==
  with_positions(m, {r \in positions(m) : aligned_set(r, size) \subseteq positions(m)})

\* smear_to_sets: smear out partial bits to aligned adjacent bit sets
smear_to_sets(m, size) ==
  with_positions(m, UNION {aligned_set(r, size) : r \in positions(m)})

\* is_aligned_sets: the mask contains only aligned adjacent bit sets
is_aligned_sets(m, size) ==
  \A r \in positions(m) : \A q \in aligned_set(r, size) : q \in positions(m)

\* clear_to_pairs, is_aligned_pairs
clear_to_pairs(m) == clear_to_sets(m, 2)
is_aligned_pairs(m) == is_aligned_sets(m, 2)

\* is_misaligned_pair: the mask is two registers that are not an aligned pair
is_misaligned_pair(m) == Size(m) = 2 /\ ~is_aligned_pairs(m)

\* RegMaskIterator: the remaining bits of the current word (relative to the
\* current element), the index of the next word and the current element
\* a shift that loses the remaining bits of the word
shift_and_clear_word(bits, next_bit) == {}

\* (_current_bits >> next_bit) - 1: the lowest bit moves to position zero and
\* is cleared
shift_and_clear(bits, next_bit) == {b - next_bit : b \in bits} \ {0}

\* RegMaskIterator::next: the iterator after the call and the element returned
RegMaskIterator_next(it, m) ==
  IF it.current_bits # ZeroWord
  THEN LET next_bit == find_lowest_bit(it.current_bits) IN
       [it |-> [it EXCEPT !.current_bits = shift_and_clear(@, next_bit),
                          !.reg = @ + next_bit],
        r |-> it.reg]
  ELSE LET words == {k \in it.next_index..m.hwm : rm_up(m, k) # ZeroWord} IN
       IF words = {}
       THEN [it |-> [current_bits |-> ZeroWord,
                     next_index |-> IF it.next_index <= m.hwm THEN m.hwm + 1
                                    ELSE it.next_index,
                     reg |-> Bad],
             r |-> it.reg]
       ELSE LET k == CHOOSE x \in words : \A y \in words : x <= y
                next_bit == find_lowest_bit(rm_up(m, k))
            IN [it |-> [current_bits |-> shift_and_clear(rm_up(m, k), next_bit),
                        next_index |-> k + 1,
                        reg |-> offset_bits(m) + k * BitsPerWord + next_bit],
                r |-> it.reg]

\* RegMaskIterator(rm): the constructor calls next() for the first element
RegMaskIterator(m) ==
  RegMaskIterator_next([current_bits |-> ZeroWord, next_index |-> m.lwm, reg |-> Bad], m).it

\* has_next
has_next(it) == it.reg # Bad

RECURSIVE iterate_from(_, _, _)
\* while (rmi.has_next()) { rmi.next(); }: the elements returned and the
\* iterator the loop ends with
iterate_from(it, m, yielded) ==
  IF has_next(it)
  THEN LET n == RegMaskIterator_next(it, m) IN iterate_from(n.it, m, Append(yielded, n.r))
  ELSE [it |-> it, yielded |-> yielded]
iterate(m) == iterate_from(RegMaskIterator(m), m, <<>>)

-----------------------------------------------------------------------------
(* compute_liveness_at_stubs as a state machine *)

\* nullptr in _live: no mask has been made for the node
NoMask == [null |-> TRUE]
is_Mach(n) == ~is_Phi(n)

\* ZBarrierSetC2State::live: which nodes track liveness
tracks_liveness(n) == is_Mach(n) /\ ~has_barrier_flag(n, "Elided")

\* ZBarrierSetC2State::live: the mask of the node, made on first use
live_mask(entry) == IF entry = NoMask THEN EmptyMask ELSE entry

\* F applied to the value of e
WithValue(e, F(_)) == CHOOSE r \in {F(x) : x \in {e}} : TRUE

\* the first id that is a stack slot: the registers fill the base mask
stack0 == RM_SIZE * BitsPerWord
\* OptoReg::is_reg
is_reg(reg) == reg >= 0 /\ reg < stack0

\* a refine_register that gives every id back as it is
unrefined_register(node, opto_reg) == opto_reg

\* BarrierSetAssembler::refine_register: Bad for what is not a machine register
refine_register(node, opto_reg) == IF is_reg(opto_reg) THEN opto_reg ELSE Bad

\* a use whose registers are not inserted
insert_nothing(m, use) == m

\* the registers of a use are inserted
insert_regs(m, use) ==
  LET first == refine_register(use, node_regs[use].first)
      second == refine_register(use, node_regs[use].second)
      m1 == IF first # Bad THEN Insert(m, first) ELSE m
  IN IF second # Bad THEN Insert(m1, second) ELSE m1

RECURSIVE add_use_bits(_, _, _)
\* the loop over the inputs of a node: their registers are inserted
add_use_bits(m, ins, k) ==
  IF k > Len(ins) THEN m
  ELSE WithValue(insert_regs(m, ins[k]), LAMBDA m2 : add_use_bits(m2, ins, k + 1))

\* the registers a node defines are removed, where they are inside the mask
remove_def_bits(m, node) ==
  LET first == refine_register(node, node_regs[node].first)
      second == refine_register(node, node_regs[node].second)
      in1 == first = Bad \/ inside_mask(m, first)
      m1 == IF first # Bad /\ in1 THEN Remove(m, first) ELSE m
      in2 == second = Bad \/ inside_mask(m1, second)
  IN [mask |-> IF second # Bad /\ in2 THEN Remove(m1, second) ELSE m1,
      inside |-> in1 /\ in2]

\* one node of the backwards walk: def bits removed, use bits added, and the
\* mask of a node that tracks liveness updated
walk_node(node, st) ==
  WithValue(remove_def_bits(st.new_live, node), LAMBDA removed :
    IF ~removed.inside THEN [st EXCEPT !.inside = FALSE]
    ELSE WithValue(add_use_bits(removed.mask, NodeOf(node).ins, 1), LAMBDA m3 :
           [new_live |-> m3,
            node_live |-> IF tracks_liveness(node)
                          THEN [st.node_live EXCEPT ![node] = OR(live_mask(@), m3)]
                          ELSE st.node_live,
            inside |-> TRUE]))

RECURSIVE walk_block_backwards(_, _, _)
\* the backwards walk over the nodes of a block, from index k down to 0; st holds
\* new_live, the node masks, and whether every Remove was inside the mask
walk_block_backwards(block, k, st) ==
  IF k < 0 \/ ~st.inside THEN st
  ELSE WithValue(walk_node(get_node(block, k), st),
                 LAMBDA next : walk_block_backwards(block, k - 1, next))

RECURSIVE union_of_successors(_, _, _)
\* new_live starts as the union of the live masks of the successors
union_of_successors(m, succs, k) ==
  IF k > Len(succs) THEN m
  ELSE WithValue(OR(m, live[succs[k]]),
                 LAMBDA u : union_of_successors(u, succs, k + 1))

Succs(b) == SortedSeq(cfg.succ[b])

\* the worklist without its k-th entry
RemoveAt(s, k) == SubSeq(s, 1, k - 1) \o SubSeq(s, k + 1, Len(s))

\* one iteration of the while loop, were the k-th entry of the worklist the one
\* taken: the block is walked backwards
LiveStep(k) ==
  /\ pc = "live_loop" /\ worklist # <<>>
  /\ \E block \in {worklist[k]} :
     \E start \in {union_of_successors(EmptyMask, Succs(block), 1)} :
     \E st \in {walk_block_backwards(block, number_of_nodes(block) - 1,
                  [new_live |-> start, node_live |-> node_live, inside |-> TRUE])} :
     \E new_live \in {SUBTRACT(st.new_live, live[block])} :
       IF ~st.inside
       THEN /\ pc' = "outside_mask"
            /\ UNCHANGED <<live, node_live, worklist>>
       ELSE /\ node_live' = st.node_live
            /\ IF is_NotEmpty(new_live)
               THEN /\ live' = [live EXCEPT ![block] = OR(@, new_live)]
                    /\ worklist' = RemoveAt(worklist, k) \o Preds(block)
               ELSE /\ live' = live
                    /\ worklist' = RemoveAt(worklist, k)
            /\ pc' = pc
  /\ UNCHANGED <<cfg, barrier_data, node_regs>>
  /\ UNCHANGED elision_vars
  /\ UNCHANGED mask_vars /\ UNCHANGED provider_vars

\* one iteration of the while loop: worklist.pop() takes the last entry
LiveBlock == LiveStep(Len(worklist))

\* an iteration that takes any entry of the worklist
LiveBlockAnyOrder == \E k \in 1..Len(worklist) : LiveStep(k)

\* the worklist is empty: compute_liveness_at_stubs returns
LiveDone ==
  /\ pc = "live_loop" /\ worklist = <<>>
  /\ pc' = "live_done"
  /\ UNCHANGED <<cfg, barrier_data, node_regs, live, node_live, worklist>>
  /\ UNCHANGED elision_vars
  /\ UNCHANGED mask_vars /\ UNCHANGED provider_vars

\* bounds of the programs liveness is computed on
MaxLiveNodes == 2
\* the nodes of a program: MachNodes with a barrier that define a register of
\* the first word or a pair of the second word, a MachNode with an elided
\* barrier, and a Phi without a register
MachFirstWord == [kind |-> "Mach", bd |-> {"Strong"}, first |-> 1, second |-> Bad]
MachPair ==
  [kind |-> "Mach", bd |-> {"Strong"}, first |-> BitsPerWord, second |-> BitsPerWord + 1]
MachElided == [kind |-> "Mach", bd |-> {"Strong", "Elided"}, first |-> 1, second |-> Bad]
PhiNoReg == [kind |-> "Phi", bd |-> {}, first |-> Bad, second |-> Bad]
LiveNodeKinds == {MachFirstWord, MachPair, MachElided, PhiNoReg}

\* the blocks of the control-flow graph: successors, predecessors, dominance
LiveGraph(succ) ==
  [succ |-> succ,
   preds |-> [b \in Blocks |-> SortedSeq({a \in Blocks : b \in succ[a]})],
   dom |-> DomPairs(succ)]

LiveGraphs == {LiveGraph(succ) : succ \in CFGs}

MakeLiveCfg(graph, kinds, blk, ins) ==
  [succ |-> graph.succ,
   preds |-> graph.preds,
   dom |-> graph.dom,
   node |-> [k \in 1..Len(kinds) |-> [kind |-> kinds[k].kind, blk |-> blk[k], ins |-> ins[k]]],
   blocks |-> [b \in Blocks |-> SelectSeq([k \in 1..Len(kinds) |-> k],
                                           LAMBDA k : blk[k] = b)]]

\* the sequences of nodes compute_liveness_at_stubs is run on
LivePrograms == UNION {[1..n -> LiveNodeKinds] : n \in 1..MaxLiveNodes}

\* the first loop: one empty mask per block, every block on the worklist
LiveInit ==
  /\ pc = "live_init"
  /\ live' = [b \in Blocks |-> EmptyMask]
  /\ worklist' = [b \in Blocks |-> b]
  /\ pc' = "live_loop"
  /\ UNCHANGED <<cfg, barrier_data, node_regs, node_live>>
  /\ UNCHANGED elision_vars
  /\ UNCHANGED mask_vars /\ UNCHANGED provider_vars

\* compute_liveness_at_stubs is entered with a control-flow graph, the nodes of
\* one of the programs with their barrier data, and the registers the register
\* allocator gave them
InitLiveFrom(programs) ==
  /\ \E graph \in LiveGraphs, kinds \in programs :
       \E ins \in [1..Len(kinds) -> {<<>>} \cup {<<k>> : k \in 1..Len(kinds)}],
          blk \in {f \in [1..Len(kinds) -> Blocks] : InBlockOrder(f)} :
         /\ cfg = MakeLiveCfg(graph, kinds, blk, ins)
         /\ barrier_data = [k \in 1..Len(kinds) |-> kinds[k].bd]
         /\ node_regs = [k \in 1..Len(kinds) |->
                          [first |-> kinds[k].first, second |-> kinds[k].second]]
         /\ node_live = [k \in 1..Len(kinds) |-> NoMask]
         /\ sfp_barriers = [k \in 1..Len(kinds) |-> <<>>]
  /\ live = <<>> /\ worklist = <<>>
  /\ regmask = <<>> /\ regmask_op = <<>>
  /\ cont_allocator = <<>> /\ returned = <<>>
  /\ pc = "live_init"
  /\ directive = [UseDomBarrierEliminationOption |-> TRUE,
                  UseSafepointAttachedBarriersOption |-> TRUE]
  /\ lists = [accesses |-> <<<<>>, <<>>, <<>>>>, dominators |-> <<<<>>, <<>>, <<>>>>]
  /\ pass = 1 /\ i = 0 /\ j = 0
  /\ access_list = <<>> /\ resolved = <<>>

InitLive == InitLiveFrom(LivePrograms)

\* a MachNode whose value the register allocator put in a stack slot beyond the
\* base mask, and one with a register and a stack slot
MachStackSlot ==
  [kind |-> "Mach", bd |-> {"Strong"}, first |-> stack0 + 1, second |-> Bad]
MachRegAndSlot ==
  [kind |-> "Mach", bd |-> {"Strong"}, first |-> 1, second |-> stack0]
SlotNodeKinds == {MachFirstWord, MachStackSlot, MachRegAndSlot, PhiNoReg}
\* the programs with stack slots
SlotPrograms == UNION {[1..n -> SlotNodeKinds] : n \in 1..MaxLiveNodes}

InitLiveSlots == InitLiveFrom(SlotPrograms)

NextLive ==
  \/ LiveInit
  \/ LiveBlock
  \/ LiveDone

SpecLive == InitLive /\ [][NextLive]_vars

\* compute_liveness_at_stubs on programs with values in stack slots
SpecLiveSlots == InitLiveSlots /\ [][NextLive]_vars

\* compute_liveness_at_stubs, were the blocks taken from the worklist in any
\* order: the orders claims about every processing order speak about
NextLiveAnyOrder ==
  \/ LiveInit
  \/ LiveBlockAnyOrder
  \/ LiveDone

SpecLiveAnyOrder == InitLive /\ [][NextLiveAnyOrder]_vars

\* compute_liveness_at_stubs runs on one thread, and every loop inside an
\* iteration of its while loop is a bounded for loop: an iteration that can be
\* taken is taken
FairSpecLive == InitLive /\ [][NextLive]_vars /\ WF_vars(NextLive)

-----------------------------------------------------------------------------
(* late_barrier_analysis: the two analyses of the late phase, one after the *)
(* other, on programs that carry barrier data and registers                 *)

\* the nodes of the late programs: a spill copy, a safepoint, and accesses to
\* one field with and without an elided barrier
LateTemplates ==
  {TSpill, TSafePoint,
   TAccess("LoadP", "X", 8, {"Strong"}),
   TAccess("LoadP", "C", 8, {"Strong"}),
   TAccess("LoadP", "X", 8, {"Strong", "Elided"}),
   TAccess("StoreP", "X", 8, {"Strong"}),
   TAccess("LoadStore", "X", 8, {"Strong"})}

\* the inputs of a node, for the loop over node->in(j): its address input
WithIns(c) ==
  [c EXCEPT !.node = [k \in DOMAIN c.node |->
     [kind |-> c.node[k].kind, blk |-> c.node[k].blk, in1 |-> c.node[k].in1,
      off |-> c.node[k].off, ary |-> c.node[k].ary, alloc |-> c.node[k].alloc,
      derived |-> c.node[k].derived,
      ins |-> IF c.node[k].in1 = NoNode THEN <<>> ELSE <<c.node[k].in1>>]]]

\* the register allocator gave every MachNode the register of its number
LateRegs(c) ==
  [k \in DOMAIN c.node |->
     [first |-> IF c.node[k].kind = "Phi" THEN Bad ELSE k, second |-> Bad]]

\* late_barrier_analysis is entered: its first statement is the call of
\* compute_liveness_at_stubs
InitLate ==
  \E n \in 2..MaxKindNodes : \E x \in {TAlloc, TDef} :
  \E rest \in [1..(n - 1) -> LateTemplates] :
    LET ts == <<x>> \o rest IN
    /\ WellFormedProgram(ts)
    /\ \E blk \in [1..n -> Blocks] :
         /\ InBlockOrder(blk)
         /\ DefsDominateUses(ts, blk, DomPairs(ChainCfg))
         /\ \E conf \in ShapeConfigs :
              LET c == WithIns(MakeCfg(ChainCfg, ts, blk, conf.derived)) IN
              /\ cfg = c
              /\ directive =
                   [UseDomBarrierEliminationOption |-> conf.UseDomBarrierEliminationOption,
                    UseSafepointAttachedBarriersOption |->
                      conf.UseSafepointAttachedBarriersOption]
              /\ barrier_data = [k \in 1..n |-> ts[k].bd]
              /\ sfp_barriers = [k \in 1..n |-> <<>>]
              /\ node_regs = LateRegs(c)
              /\ node_live = [k \in 1..n |-> NoMask]
    /\ lists = [accesses |-> <<<<>>, <<>>, <<>>>>, dominators |-> <<<<>>, <<>>, <<>>>>]
    /\ pc = "live_init"
    /\ pass = 1 /\ i = 0 /\ j = 0
    /\ access_list = <<>> /\ resolved = <<>>
    /\ live = <<>> /\ worklist = <<>>
    /\ regmask = <<>> /\ regmask_op = <<>>
    /\ cont_allocator = <<>> /\ returned = <<>>

\* analyze_dominating_barriers called while compute_liveness_at_stubs still runs
AnalyzeBeforeLivenessReturned ==
  /\ pc = "live_loop"
  /\ pc' = "collect"
  /\ UNCHANGED <<cfg, barrier_data>>
  /\ UNCHANGED live_vars /\ UNCHANGED elision_vars
  /\ UNCHANGED mask_vars /\ UNCHANGED provider_vars

\* late_barrier_analysis: compute_liveness_at_stubs has returned, and
\* analyze_dominating_barriers is called
AnalyzeAfterLiveness ==
  /\ pc = "live_done"
  /\ pc' = "collect"
  /\ UNCHANGED <<cfg, barrier_data>>
  /\ UNCHANGED live_vars /\ UNCHANGED elision_vars
  /\ UNCHANGED mask_vars /\ UNCHANGED provider_vars

NextLate ==
  \/ LiveInit
  \/ LiveBlock
  \/ LiveDone
  \/ AnalyzeAfterLiveness
  \/ Collect
  \/ SkipAccess
  \/ SkipCandidate
  \/ DefChainWalk
  \/ ProcessAccess
  \/ NextAccess
  \/ NextPass

SpecLate == InitLate /\ [][NextLate]_vars

-----------------------------------------------------------------------------
(* early_barrier_analysis: the pass that flags hoisting candidates, on a    *)
(* control-flow graph with its loop tree (CFGLoop) and block frequencies.   *)
(* A loop is named by the block that is its head.                           *)

\* the root of the loop tree: its head is the block of the Root node, which
\* holds no other node and is dominated by no other block
RootLoop == 0
\* nullptr for a CFGLoop
NoLoop == -1
\* number of nodes of a program of the early pass
MaxEarlyNodes == 2
\* the block frequencies
Freqs == {1, 2}

\* the sources of the back edges into h
BackEdgeSources(succ, h) ==
  {a \in Blocks : h \in succ[a] /\ <<h, a>> \in DomPairs(succ)}
LoopHeads(succ) == {h \in Blocks : BackEdgeSources(succ, h) # {}}

RECURSIVE ReachBackwards(_, _, _)
\* the blocks that reach a block of `seen` without passing through h
ReachBackwards(succ, seen, h) ==
  LET next == seen \cup {a \in Blocks : \E b \in seen \ {h} : b \in succ[a]}
  IN IF next = seen THEN seen ELSE ReachBackwards(succ, next, h)

\* CFGLoop: the members of the loop with head h
LoopMembers(succ, h) == ReachBackwards(succ, BackEdgeSources(succ, h) \cup {h}, h)

\* the loops that contain the blocks of `members` and more
LoopsAround(succ, members) ==
  {h \in LoopHeads(succ) :
     members \subseteq LoopMembers(succ, h) /\ members # LoopMembers(succ, h)}

\* the loop of `among` with the fewest members, the root loop when there is none
SmallestLoop(succ, among) ==
  IF among = {} THEN RootLoop
  ELSE CHOOSE h \in among :
         \A g \in among : Cardinality(LoopMembers(succ, h)) <= Cardinality(LoopMembers(succ, g))

\* a loop head is a Loop node: one entry from outside the loop and one back edge
EarlyCFGs ==
  {succ \in CFGs :
     \A h \in LoopHeads(succ) :
       /\ Cardinality({a \in Blocks : h \in succ[a]}) = 2
       /\ Cardinality({a \in Blocks : h \in succ[a]} \ LoopMembers(succ, h)) = 1}

\* the loop tree of a graph: Block::_loop, CFGLoop::parent, the members, and
\* the block of header->pred(LoopNode::EntryControl)
LoopTree(succ) ==
  [loop |-> [b \in Blocks |->
               SmallestLoop(succ, {h \in LoopHeads(succ) : b \in LoopMembers(succ, h)})],
   parent |-> [h \in Blocks |-> SmallestLoop(succ, LoopsAround(succ, LoopMembers(succ, h)))],
   members |-> [h \in Blocks |-> LoopMembers(succ, h)],
   entry |-> [h \in Blocks |->
                IF h \in LoopHeads(succ)
                THEN CHOOSE a \in Blocks : h \in succ[a] /\ a \notin LoopMembers(succ, h)
                ELSE h]]

\* CFGLoop::head
head(loop) == loop

\* dominates(block, loop)
dominates(block, loop) == Dominates(block, head(loop))

\* the innermost loop, were the walk to stop at it
innermost_loop(mem_block, current_loop, outmost) ==
  IF dominates(mem_block, current_loop) THEN current_loop ELSE outmost

RECURSIVE outmost_loop(_, _, _)
\* the while loop of early_barrier_analysis: up the loop tree while the block
\* of the address dominates the head of the loop
outmost_loop(mem_block, current_loop, outmost) ==
  IF dominates(mem_block, current_loop)
  THEN outmost_loop(mem_block, cfg.tree.parent[current_loop], current_loop)
  ELSE outmost

\* the node reaches the last statement of the loop body: none of the continue
\* statements is taken
is_hoisting_candidate(n) ==
  /\ is_Mach(n)
  /\ NodeOf(n).kind = "LoadP"
  /\ has_barrier_flag(n, "Strong") /\ ~has_barrier_flag(n, "NoKeepalive")
  /\ LET mem == look_through_node(base_of(n), TRUE) IN
     /\ mem # NoNode
     /\ is_concrete(offset_of(n)) /\ offset_of(n) >= 0
     /\ LET outmost == outmost_loop(BlockOf(mem), cfg.tree.loop[BlockOf(n)], NoLoop) IN
        /\ outmost # NoLoop
        /\ ~(cfg.freq[cfg.tree.entry[head(outmost)]] >= cfg.freq[BlockOf(n)])

\* the node the loops over the blocks and their nodes are at
EarlyNode == CollectionOrder(1)[i + 1]

\* a node for which one of the continue statements is taken
EarlySkip ==
  /\ pc = "early" /\ i < Len(CollectionOrder(1))
  /\ ~is_hoisting_candidate(EarlyNode)
  /\ i' = i + 1
  /\ UNCHANGED <<cfg, directive, barrier_data, sfp_barriers, lists, pc, pass, j,
                 access_list, resolved>>
  /\ UNCHANGED live_vars
  /\ UNCHANGED mask_vars /\ UNCHANGED provider_vars

\* a load that passes every test: flagged under ProfileBarrierEliminationOption
EarlyCandidate ==
  /\ pc = "early" /\ i < Len(CollectionOrder(1))
  /\ is_hoisting_candidate(EarlyNode)
  /\ barrier_data' =
       IF directive.ProfileBarrierEliminationOption
       THEN [barrier_data EXCEPT ![EarlyNode] = @ \cup {"HoistingCandidate"}]
       ELSE barrier_data
  /\ i' = i + 1
  /\ UNCHANGED <<cfg, directive, sfp_barriers, lists, pc, pass, j, access_list, resolved>>
  /\ UNCHANGED live_vars
  /\ UNCHANGED mask_vars /\ UNCHANGED provider_vars

\* every block has been visited: early_barrier_analysis returns
EarlyDone ==
  /\ pc = "early" /\ i = Len(CollectionOrder(1))
  /\ pc' = "early_done"
  /\ UNCHANGED <<cfg, directive, barrier_data, sfp_barriers, lists, pass, i, j,
                 access_list, resolved>>
  /\ UNCHANGED live_vars
  /\ UNCHANGED mask_vars /\ UNCHANGED provider_vars

\* the nodes of the programs of the early pass: loads of every barrier data and
\* offset, with and without address information, and a store
EarlyTemplates ==
  {TAccess("LoadP", "X", 8, {"Strong"}),
   TAccess("LoadP", "X", 8, {"Strong", "NoKeepalive"}),
   TAccess("LoadP", "X", 8, {"Weak"}),
   TAccess("LoadP", "X", 8, {"Strong", "Elided"}),
   TAccess("LoadP", "X", -8, {"Strong"}),
   TAccess("LoadP", "X", OffsetBot, {"Strong"}),
   TAccess("LoadP", "none", 8, {"Strong"}),
   TAccess("StoreP", "X", 8, {"Strong"})}

InitEarly ==
  \E succ \in EarlyCFGs : \E n \in 2..MaxEarlyNodes : \E x \in {TAlloc, TDef} :
  \E rest \in [1..(n - 1) -> EarlyTemplates] :
    LET ts == <<x>> \o rest IN
    /\ \E blk \in [1..n -> Blocks] : \E freq \in [Blocks -> Freqs] :
       \E profile \in BOOLEAN :
         /\ InBlockOrder(blk)
         /\ DefsDominateUses(ts, blk, DomPairs(succ))
         /\ cfg = [succ |-> succ,
                   dom |-> DomPairs(succ),
                   node |-> MakeCfg(succ, ts, blk, FALSE).node,
                   blocks |-> MakeCfg(succ, ts, blk, FALSE).blocks,
                   tree |-> LoopTree(succ),
                   freq |-> freq]
         /\ directive = [ProfileBarrierEliminationOption |-> profile]
    /\ barrier_data = [k \in 1..n |-> ts[k].bd]
    /\ sfp_barriers = [k \in 1..n |-> <<>>]
    /\ lists = [accesses |-> <<<<>>, <<>>, <<>>>>, dominators |-> <<<<>>, <<>>, <<>>>>]
    /\ pc = "early"
    /\ pass = 1 /\ i = 0 /\ j = 0
    /\ access_list = <<>> /\ resolved = <<>>
    /\ node_regs = <<>> /\ live = <<>> /\ node_live = <<>> /\ worklist = <<>>
    /\ regmask = <<>> /\ regmask_op = <<>>
    /\ cont_allocator = <<>> /\ returned = <<>>

NextEarly ==
  \/ EarlySkip
  \/ EarlyCandidate
  \/ EarlyDone

SpecEarly == InitEarly /\ [][NextEarly]_vars

-----------------------------------------------------------------------------
(* A RegMask object under the operations of regmask.hpp *)

\* bounds: the words a mask grows to, and the words its offset rolls over
MaxMaskWords == 2 * RM_SIZE
RolloverLimit == 2 * RM_SIZE

\* the offsets a mask can have: rollover adds the size of the mask
MaskOffsets == {0, RM_SIZE, 2 * RM_SIZE}

\* the register ids membership is asked for
AllIds == 0..((RolloverLimit + round_up_power_of_2(MaxMaskWords) + 1) * BitsPerWord)

\* the registers that can be inserted: not below the offset (the assertion
\* of Insert), and inside the words the mask may grow to
InsertRegs(m) == offset_bits(m)..(offset_bits(m) + MaxMaskWords * BitsPerWord - 1)

RECURSIVE InsertAll(_, _)
\* Insert called for every register of the sequence regs
InsertAll(m, regs) ==
  IF regs = <<>> THEN m
  ELSE WithValue(Insert(m, regs[1]), LAMBDA inserted : InsertAll(inserted, Tail(regs)))

\* the registers of the second operand of OR, AND, SUBTRACT, SUBTRACT_inner and
\* of the source of a copy, relative to its offset
OperandRegs == {1, 2 * BitsPerWord + 1}

\* the masks passed as second operand: a mask of the given offset, cleared,
\* with some registers inserted, possibly stretched by inserting and removing
\* a register of its last word, and with or without the all-stack flag
Operands(offset) ==
  {set_AllStack(
     LET cleared == [EmptyMask EXCEPT !.offset = offset]
         top == offset * BitsPerWord + MaxMaskWords * BitsPerWord - 1
         filled == InsertAll(cleared, SortedSeq({offset * BitsPerWord + r : r \in S}))
     IN IF stretch THEN Remove(Insert(filled, top), top) ELSE filled,
     flag) : S \in SUBSET OperandRegs, stretch \in BOOLEAN, flag \in BOOLEAN}

\* the record of a call: the operation called
Call(name, reg, arg) == [name |-> name]

\* what the mask operations leave alone
not_mask_vars ==
  <<cfg, directive, barrier_data, sfp_barriers, lists, pc, pass, i, j,
    access_list, resolved, node_regs, live, node_live, worklist,
    cont_allocator, returned>>

MaskInsert ==
  /\ \E reg \in InsertRegs(regmask) :
       /\ regmask' = Insert(regmask, reg)
       /\ regmask_op' = Call("Insert", reg, NoMask)
  /\ UNCHANGED not_mask_vars

MaskRemove ==
  /\ \E reg \in AllIds :
       /\ inside_mask(regmask, reg)
       /\ regmask' = Remove(regmask, reg)
       /\ regmask_op' = Call("Remove", reg, NoMask)
  /\ UNCHANGED not_mask_vars

MaskOR ==
  /\ \E arg \in Operands(regmask.offset) :
       /\ regmask' = OR(regmask, arg)
       /\ regmask_op' = Call("OR", Bad, arg)
  /\ UNCHANGED not_mask_vars

MaskAND ==
  /\ \E arg \in Operands(regmask.offset) :
       /\ regmask' = AND(regmask, arg)
       /\ regmask_op' = Call("AND", Bad, arg)
  /\ UNCHANGED not_mask_vars

MaskSUBTRACT ==
  /\ \E arg \in Operands(regmask.offset) :
       /\ regmask' = SUBTRACT(regmask, arg)
       /\ regmask_op' = Call("SUBTRACT", Bad, arg)
  /\ UNCHANGED not_mask_vars

MaskSUBTRACT_inner ==
  /\ \E offset \in MaskOffsets : \E arg \in Operands(offset) :
       /\ regmask' = SUBTRACT_inner(regmask, arg)
       /\ regmask_op' = Call("SUBTRACT_inner", Bad, arg)
  /\ UNCHANGED not_mask_vars

MaskClear ==
  /\ regmask' = Clear(regmask)
  /\ regmask_op' = Call("Clear", Bad, NoMask)
  /\ UNCHANGED not_mask_vars

MaskSet_All_From_Offset ==
  /\ regmask' = Set_All_From_Offset(regmask)
  /\ regmask_op' = Call("Set_All_From_Offset", Bad, NoMask)
  /\ UNCHANGED not_mask_vars

MaskSet_All_From ==
  /\ \E reg \in InsertRegs(regmask) :
       /\ regmask' = Set_All_From(regmask, reg)
       /\ regmask_op' = Call("Set_All_From", reg, NoMask)
  /\ UNCHANGED not_mask_vars

MaskSetAllStack ==
  /\ \E value \in BOOLEAN :
       /\ regmask' = set_AllStack(regmask, value)
       /\ regmask_op' = Call("set_AllStack", Bad, NoMask)
  /\ UNCHANGED not_mask_vars

\* rollover, on a mask that is all-stack only (its assertion)
MaskRollover ==
  /\ is_AllStack_only(regmask)
  /\ regmask.offset + regmask.rm_size <= RolloverLimit
  /\ regmask' = rollover(regmask)
  /\ regmask_op' = Call("rollover", Bad, NoMask)
  /\ UNCHANGED not_mask_vars

\* operator=, from a mask of the same offset (the assertion of _copy)
MaskAssign ==
  /\ \E arg \in Operands(regmask.offset) :
       /\ regmask' = copy(regmask, arg)
       /\ regmask_op' = Call("operator=", Bad, arg)
  /\ UNCHANGED not_mask_vars

\* the copy constructor: the calls go on with a copy of the mask
MaskCopy ==
  /\ regmask' = copy_constructed(regmask)
  /\ regmask_op' = Call("RegMask(rm)", Bad, regmask)
  /\ UNCHANGED not_mask_vars

\* RegMask rm;
InitMask ==
  /\ regmask = EmptyMask
  /\ regmask_op = Call("RegMask()", Bad, NoMask)
  /\ cfg = <<>> /\ barrier_data = <<>> /\ pc = "regmask"
  /\ directive = <<>> /\ sfp_barriers = <<>> /\ lists = <<>>
  /\ pass = 0 /\ i = 0 /\ j = 0
  /\ access_list = <<>> /\ resolved = <<>>
  /\ node_regs = <<>> /\ live = <<>> /\ node_live = <<>> /\ worklist = <<>>
  /\ cont_allocator = <<>> /\ returned = <<>>

NextMask ==
  \/ MaskInsert
  \/ MaskRemove
  \/ MaskOR
  \/ MaskAND
  \/ MaskSUBTRACT
  \/ MaskSUBTRACT_inner
  \/ MaskClear
  \/ MaskSet_All_From_Offset
  \/ MaskSet_All_From
  \/ MaskSetAllStack
  \/ MaskRollover
  \/ MaskAssign
  \/ MaskCopy

SpecMask == InitMask /\ [][NextMask]_vars

----------------------------------------------------------------------------
(* A RegMask object under the alignment operations *)

\* the number of registers of a mask Remove is called on
MaxRemoveFrom == 4

\* the ids the alignment tests insert
AlignmentIds == <<30, 31, 32, 37, 62, 71, 74, 75>>
ClearToSetsIds == <<3, 20, 21, 22, 23, 25, 26, 27, 40, 42, 43, 44, 45>>
SmearToSetsIds == <<3>>

\* the sequences of ids a test has inserted after each of its calls of Insert
Prefixes(ids) == {SubSeq(ids, 1, k) : k \in 0..Len(ids)}

\* the sizes of a set of adjacent registers; a word of the mask holds a whole
\* number of sets
SetSizes(m) == {size \in {2, 4, 8, 16} : rm_size_bits(m) % size = 0}

InitSets ==
  /\ \E ids \in Prefixes(AlignmentIds) \cup {ClearToSetsIds, SmearToSetsIds} :
        regmask = InsertAll(EmptyMask, ids)
  /\ regmask_op = Call("Insert", Bad, NoMask)
  /\ cfg = <<>> /\ barrier_data = <<>> /\ pc = "sets"
  /\ directive = <<>> /\ sfp_barriers = <<>> /\ lists = <<>>
  /\ pass = 0 /\ i = 0 /\ j = 0
  /\ access_list = <<>> /\ resolved = <<>>
  /\ node_regs = <<>> /\ live = <<>> /\ node_live = <<>> /\ worklist = <<>>
  /\ cont_allocator = <<>> /\ returned = <<>>

SetsClear ==
  /\ \E size \in SetSizes(regmask) : regmask' = clear_to_sets(regmask, size)
  /\ regmask_op' = Call("clear_to_sets", Bad, NoMask)
  /\ UNCHANGED not_mask_vars

SetsSmear ==
  /\ \E size \in SetSizes(regmask) : regmask' = smear_to_sets(regmask, size)
  /\ regmask_op' = Call("smear_to_sets", Bad, NoMask)
  /\ UNCHANGED not_mask_vars

\* Remove of one of the registers the alignment test has inserted, from a
\* mask of no more registers than the pairs that test removes from
SetsRemove ==
  /\ Size(regmask) <= MaxRemoveFrom
  /\ \E k \in 1..Len(AlignmentIds) :
       /\ inside_mask(regmask, AlignmentIds[k])
       /\ Member(regmask, AlignmentIds[k], FALSE)
       /\ regmask' = Remove(regmask, AlignmentIds[k])
  /\ regmask_op' = Call("Remove", Bad, NoMask)
  /\ UNCHANGED not_mask_vars

NextSets == SetsClear \/ SetsSmear \/ SetsRemove

SpecSets == InitSets /\ [][NextSets]_vars

-----------------------------------------------------------------------------
(* ContiguousAllocator and ContiguousProvider: addresses are numbers of     *)
(* bytes                                                                    *)

\* get_chunk_size(false): 64*K, a multiple of the page size
chunk_size_bytes == 65536
\* slack: 128*K
slack == 131072
\* MAP_FAILED, (void*)-1: the highest address of the address space of the model
MAP_FAILED == 2147483647
nullptr == 0

\* the chunk the reserved range starts at, and the chunks it has
StartChunk == 17
ReservedChunks == 4
\* how many chunks beyond the reserved range the bump offset is followed
MaxOverrun == 2
\* how many returned blocks are kept
MaxReturned == 4

\* the sizes alloc is called with
Requests ==
  {0, 1, chunk_size_bytes, chunk_size_bytes + 1, ReservedChunks * chunk_size_bytes}

align_up(x, alignment) == ((x + alignment - 1) \div alignment) * alignment
is_aligned(x, alignment) == x % alignment = 0

\* populate_chunk: the allocator after the call and the AllocationResult;
\* mmap_ok is whether the mmap of the chunk succeeds
populate_chunk(a, requested_size, mmap_ok) ==
  LET chunk_aligned_size == align_up(requested_size, a.chunk_size)
      next_offset == a.offset + chunk_aligned_size
  IN IF next_offset <= a.committed_boundary
     THEN [a |-> [a EXCEPT !.offset = next_offset],
           r |-> [loc |-> a.offset, sz |-> chunk_aligned_size]]
     ELSE IF next_offset >= a.start + a.size
     THEN [a |-> a, r |-> [loc |-> nullptr, sz |-> 0]]
     ELSE IF ~mmap_ok
     THEN [a |-> a, r |-> [loc |-> nullptr, sz |-> 0]]
     ELSE [a |-> [a EXCEPT !.offset = next_offset, !.committed_boundary = next_offset],
           r |-> [loc |-> a.offset, sz |-> chunk_aligned_size]]

\* ContiguousAllocator::alloc
alloc(a, bytes, mmap_ok) == populate_chunk(a, bytes, mmap_ok)

\* ContiguousAllocator::reset_to
reset_to(a, p) ==
  LET unused_bytes == a.committed_boundary - p IN
  [a EXCEPT !.offset = p,
            !.committed_boundary = IF unused_bytes >= slack THEN p ELSE @]

\* ContiguousAllocator::reset_full, memory_to_leave at its default
reset_full(a) == [a EXCEPT !.offset = a.start, !.committed_boundary = a.start + a.chunk_size]

\* ContiguousAllocator(size, flag): the range is reserved and trimmed to a
\* chunk boundary (a first chunk on a 2M boundary is unmapped), and the result
\* of the mmap that pre-faults the first chunk becomes committed_boundary
ContiguousAllocator(size, start, prefault) ==
  [size |-> size, chunk_size |-> chunk_size_bytes, start |-> start,
   offset |-> align_up(start, chunk_size_bytes), committed_boundary |-> prefault]

\* the blocks returned since the last reset, and the pointer of that reset
NoBlocks == [blocks |-> <<>>, reset_to |-> nullptr]

InitProvider ==
  /\ \E dropped \in {0, 1}, failed \in BOOLEAN :
        LET start == (StartChunk + dropped) * chunk_size_bytes
            size == (ReservedChunks - dropped) * chunk_size_bytes
        IN cont_allocator = ContiguousAllocator(size, start,
                                                IF failed THEN MAP_FAILED ELSE start)
  /\ returned = NoBlocks
  /\ regmask = <<>> /\ regmask_op = <<>>
  /\ cfg = <<>> /\ barrier_data = <<>> /\ pc = "provider"
  /\ directive = <<>> /\ sfp_barriers = <<>> /\ lists = <<>>
  /\ pass = 0 /\ i = 0 /\ j = 0
  /\ access_list = <<>> /\ resolved = <<>>
  /\ node_regs = <<>> /\ live = <<>> /\ node_live = <<>> /\ worklist = <<>>

not_provider_vars ==
  <<cfg, directive, barrier_data, sfp_barriers, lists, pass, i, j,
    access_list, resolved, node_regs, live, node_live, worklist, regmask, regmask_op>>

\* ContiguousProvider::alloc: the block of the allocator, or
\* vm_exit_out_of_memory, or a null result
ProviderAlloc ==
  /\ pc = "provider"
  /\ Len(returned.blocks) < MaxReturned
  /\ \E bytes \in Requests, mmap_ok \in BOOLEAN, exit_oom \in BOOLEAN :
        \E p \in {alloc(cont_allocator, bytes, mmap_ok)} :
          /\ p.a.offset <= cont_allocator.start + cont_allocator.size
                              + MaxOverrun * chunk_size_bytes
          /\ cont_allocator' = p.a
          /\ IF p.r.loc # nullptr
             THEN /\ returned' = [returned EXCEPT !.blocks = Append(@, p.r)]
                  /\ pc' = pc
             ELSE /\ returned' = returned
                  /\ pc' = IF exit_oom THEN "vm_exit" ELSE pc
  /\ UNCHANGED not_provider_vars

\* ContiguousProvider::reset_to: ptr is chunk aligned and between start and
\* offset (the assertions of both reset_to)
ProviderResetTo ==
  /\ pc = "provider"
  /\ \E k \in 0..(ReservedChunks + MaxOverrun) :
        LET ptr == cont_allocator.start + k * chunk_size_bytes IN
        /\ ptr <= cont_allocator.offset
        /\ is_aligned(ptr, cont_allocator.chunk_size)
        /\ cont_allocator' = reset_to(cont_allocator, ptr)
        /\ returned' = [blocks |-> <<>>, reset_to |-> ptr]
  /\ UNCHANGED pc
  /\ UNCHANGED not_provider_vars

\* ContiguousAllocator::reset_full
AllocatorResetFull ==
  /\ pc = "provider"
  /\ cont_allocator' = reset_full(cont_allocator)
  /\ returned' = [blocks |-> <<>>, reset_to |-> cont_allocator.start]
  /\ UNCHANGED pc
  /\ UNCHANGED not_provider_vars

NextProvider == ProviderAlloc \/ ProviderResetTo \/ AllocatorResetFull

SpecProvider == InitProvider /\ [][NextProvider]_vars

----------------------------------------------------------------------------
(* What the claims speak about *)

\* the classification of gather_stats: elided accesses count as dominator
\* elided, else as safepoint-attached elided, else as trivially elided
ElisionState(n) ==
  IF "Elided" \in barrier_data[n]
  THEN IF "DomElided" \in barrier_data[n] THEN "DominatorElided"
       ELSE IF "SABElided" \in barrier_data[n] THEN "SafepointAttachedElided"
       ELSE "TriviallyElided"
  ELSE "Required"

RECURSIVE EntryNodes(_, _)
\* the first nodes control reaches on entering the blocks of todo (empty blocks
\* fall through to their successors)
EntryNodes(todo, seen) ==
  IF todo = {} THEN {}
  ELSE LET b == CHOOSE x \in todo : TRUE IN
       IF b \in seen THEN EntryNodes(todo \ {b}, seen)
       ELSE IF number_of_nodes(b) > 0
       THEN {get_node(b, 0)} \cup EntryNodes(todo \ {b}, seen \cup {b})
       ELSE EntryNodes((todo \ {b}) \cup cfg.succ[b], seen \cup {b})

\* the nodes control can reach next after node n
NodeSuccs(n) ==
  LET b == BlockOf(n)
      k == block_index(b, n)
  IN IF k + 1 < number_of_nodes(b) THEN {get_node(b, k + 1)}
     ELSE EntryNodes(cfg.succ[b], {})

RECURSIVE ReachNodes(_, _)
\* the nodes on control-flow paths from the nodes of seen that do not continue
\* through node avoid
ReachNodes(seen, avoid) ==
  LET next == seen \cup UNION {NodeSuccs(m) : m \in seen \ {avoid}}
  IN IF next = seen THEN seen ELSE ReachNodes(next, avoid)

IsSafepoint(n) == NodeOf(n).kind = "SafePoint"

\* the safepoints (leaf calls excluded) on a control-flow path from dom to access
\* that does not pass through dom again
SafepointsBetween(dom, access) ==
  {s \in ReachNodes(NodeSuccs(dom), dom) \ {dom} :
     IsSafepoint(s) /\ access \in ReachNodes({s}, dom)}

Resolved == Range(resolved)
Elisions == {e \in Resolved : e.outcome \in {"dom_elided", "sab_elided"}}
FoundSafepoints(e) == {e.found[k].msfp : k \in 1..Len(e.found)}
RecordsOf(s, access) == {k \in 1..Len(sfp_barriers[s]) : sfp_barriers[s][k].access = access}

RECURSIVE CastsBelow(_)
\* the casts and spill copies that forward the value of the nodes of seen
CastsBelow(seen) ==
  LET next == seen \cup {m \in Nodes : /\ is_SpillCopy(m) \/ is_CheckCastPP(m)
                                       /\ NodeOf(m).in1 \in seen}
  IN IF next = seen THEN seen ELSE CastsBelow(next)

\* the value of phi is cast to a Java array pointer
HasArrayCast(phi) == \E m \in CastsBelow({phi}) : is_CheckCastPP(m) /\ NodeOf(m).ary

\* the nodes that are placed so that they can dominate access: another node, in
\* a dominating block and, in the block of the access, at an earlier position
PlacedAbove(access) ==
  {d \in Nodes \ {access} :
     /\ Dominates(BlockOf(d), BlockOf(access))
     /\ BlockOf(d) = BlockOf(access)
          => block_index(BlockOf(d), d) < block_index(BlockOf(access), access)}

IsCandidateKind(n) == is_allocation(n) \/ is_Access(n)
ElidedByPass(n) == barrier_data[n] \cap {"DomElided", "SABElided"} # {}
BothOptions ==
  directive.UseDomBarrierEliminationOption /\ directive.UseSafepointAttachedBarriersOption

-----------------------------------------------------------------------------
(* The claims *)

\* C1: an access carries at most one elision variant, and an access that is
\* elided is never modified again by the pass.
C1_OneVariantNeverModified ==
  /\ [](\A n \in Nodes : ~({"DomElided", "SABElided"} \subseteq barrier_data[n]))
  /\ [][\A n \in Nodes : "Elided" \in barrier_data[n] => barrier_data'[n] = barrier_data[n]]_vars

\* C2: every safepoint (leaf calls excluded) on a control-flow path from the
\* dominator to the access that does not pass through the dominator again is in
\* the list of discovered safepoints; an access marked dominator elided against
\* a dominator has no such safepoint.
C2_SafepointsDiscovered ==
  \A e \in Resolved :
    /\ SafepointsBetween(e.dom, e.access) \subseteq FoundSafepoints(e)
    /\ e.outcome = "dom_elided" => SafepointsBetween(e.dom, e.access) = {}

C2_Witness ==
  \E e \in Resolved :
    /\ BlockOf(e.dom) # BlockOf(e.access)
    /\ \E s \in SafepointsBetween(e.dom, e.access) :
         BlockOf(s) \notin {BlockOf(e.dom), BlockOf(e.access)}
    /\ \E f \in Resolved : f.outcome = "dom_elided" /\ f.access = e.access

\* C3: only accesses that end safepoint-attached elided appear in a safepoint's
\* record list; required, trivially elided, dominator elided and bailed-out
\* accesses never do.
C3_RecordsOnlyForSABElided ==
  \A s \in Nodes : \A k \in 1..Len(sfp_barriers[s]) :
    /\ ElisionState(sfp_barriers[s][k].access) = "SafepointAttachedElided"
    /\ \A e \in Resolved :
         e.access = sfp_barriers[s][k].access => e.outcome \notin {"dom_elided", "sab_bailout"}

\* C4 as stated: a qualifying dominator with no safepoint discovered between it
\* and the access makes the access dominator elided, with no record created.
C4_NoSafepointDomElided ==
  \A e \in Resolved :
    e.found = <<>> =>
      /\ "DomElided" \in barrier_data[e.access]
      /\ \A s \in Nodes : \A k \in 1..Len(sfp_barriers[s]) :
           ~(sfp_barriers[s][k].access = e.access /\ sfp_barriers[s][k].dom = e.dom)

\* the program alloc; store; load of the stored field, in one block, the load
\* with a barrier that was not elided before the pass
AllocStoreLoad ==
  /\ Len(cfg.node) = 3
  /\ is_allocation(1) /\ NodeOf(2).kind = "StoreP" /\ NodeOf(3).kind = "LoadP"
  /\ base_of(2) = 1 /\ base_of(3) = 1 /\ offset_of(2) = 8 /\ offset_of(3) = 8
  /\ IsStoreAccess(2) /\ IsLoadAccess(3) /\ ElisionState(3) # "TriviallyElided"

\* C4: with UseDomBarrierEliminationOption enabled, a qualifying dominator with
\* no safepoint discovered between it and the access makes the access dominator
\* elided, with no record created; in particular the load of alloc; store; load
\* in one block ends dominator elided.
C4_NoSafepointDomElidedWithOption ==
  directive.UseDomBarrierEliminationOption =>
    /\ C4_NoSafepointDomElided
    /\ (pc = "done" /\ AllocStoreLoad) =>
         /\ ElisionState(3) = "DominatorElided"
         /\ \A s \in Nodes : sfp_barriers[s] = <<>>

C4_Witness ==
  /\ pc = "done" /\ AllocStoreLoad /\ directive.UseDomBarrierEliminationOption
  /\ \E e \in Resolved : e.access = 3 /\ e.dom = 2 /\ e.found = <<>>

\* C5 as stated, granted that both directive options are enabled: when
\* safepoints are discovered and the offset is known, fits in 16 bits and the
\* access is not to a derived pointer, the access is safepoint-attached elided
\* and each safepoint found holds exactly one record for the access.
C5_ExactlyOneRecord ==
  \A e \in Resolved :
    (/\ BothOptions
     /\ e.found # <<>>
     /\ offset_is_known(offset_of(e.access)) /\ offset_is_short(offset_of(e.access))
     /\ ~is_derived(e.access)) =>
      /\ "SABElided" \in barrier_data[e.access]
      /\ \A s \in FoundSafepoints(e) : Cardinality(RecordsOf(s, e.access)) = 1

\* the records safepoint s holds for the access of e, made against its dominator
RecordsFor(s, e) ==
  {k \in RecordsOf(s, e.access) : sfp_barriers[s][k].dom = e.dom}

\* C5: with UseSafepointAttachedBarriersOption enabled, when safepoints are
\* discovered and the offset is known, fits in 16 bits and the access is not to
\* a derived pointer, the access is marked safepoint-attached elided and each
\* safepoint between the dominator and the access holds at least one record for
\* the access, one for each time the search met the safepoint.
C5_AtLeastOneRecord ==
  \A e \in Resolved :
    (/\ directive.UseSafepointAttachedBarriersOption
     /\ e.found # <<>>
     /\ offset_is_known(offset_of(e.access)) /\ offset_is_short(offset_of(e.access))
     /\ ~is_derived(e.access)) =>
      /\ {"Elided", "SABElided"} \subseteq barrier_data[e.access]
      /\ \A s \in FoundSafepoints(e) \cup SafepointsBetween(e.dom, e.access) :
           Cardinality(RecordsFor(s, e)) =
             Cardinality({k \in 1..Len(e.found) : e.found[k].msfp = s})
      /\ \A s \in SafepointsBetween(e.dom, e.access) : RecordsFor(s, e) # {}

C5_Witness ==
  \E e \in Resolved :
    /\ e.outcome = "sab_elided"
    /\ BlockOf(e.dom) # BlockOf(e.access)
    /\ \E s \in SafepointsBetween(e.dom, e.access) : Cardinality(RecordsFor(s, e)) = 1
    /\ \E s \in SafepointsBetween(e.dom, e.access) : Cardinality(RecordsFor(s, e)) = 2

\* C6: when safepoints are discovered but the offset is unknown, does not fit in
\* 16 bits, or the access is to a derived pointer, the access is not elided, its
\* flags stay as they are and no record is created.
C6_BailoutNotElided ==
  \A e \in Resolved :
    e.outcome = "sab_bailout" =>
      /\ ~e.was_elided
      /\ \A s \in Nodes : \A k \in 1..Len(sfp_barriers[s]) :
           ~(sfp_barriers[s][k].access = e.access /\ sfp_barriers[s][k].dom = e.dom)

\* C7: an access is elided only against a candidate that is not the access
\* itself, whose block dominates the block of the access and which, in the same
\* block, sits at a strictly earlier position; an access with no such candidate
\* is not elided by the pass.
C7_CandidatePlacedAbove ==
  /\ \A e \in Elisions : e.dom \in PlacedAbove(e.access)
  /\ \A n \in Nodes :
       (\A d \in PlacedAbove(n) : ~IsCandidateKind(d)) => ~ElidedByPass(n)

C7_Witness ==
  /\ pc = "done"
  /\ \E e \in Elisions : \E n \in Range(lists.accesses[1]) :
       /\ ~ElidedByPass(n)
       /\ BlockOf(n) = BlockOf(e.access)
       /\ e.access \in Range(lists.dominators[1]) \ PlacedAbove(n)
       /\ base_of(n) = base_of(e.access) /\ offset_of(n) = offset_of(e.access)

\* C8: an allocation is taken as dominator of an access only when the base of
\* the access is the allocation and the offset is concrete and non-negative, or
\* unknown with the allocation cast to an array; any other dominator only when
\* both address the same memory definition, looking through spill copies and
\* casts, at equal concrete offsets.
C8_SameAddress ==
  \A e \in Resolved :
    LET off == offset_of(e.access)
        mem == look_through_node(base_of(e.access), TRUE)
    IN IF is_allocation(e.dom)
       THEN /\ mem = e.dom
            /\ \/ is_concrete(off) /\ off >= 0
               \/ is_unknown(off) /\ HasArrayCast(e.dom)
       ELSE /\ look_through_node(base_of(e.dom), TRUE) = mem
            /\ is_concrete(off) /\ is_concrete(offset_of(e.dom))
            /\ offset_of(e.dom) = off

C8_Witness ==
  /\ \E e \in Elisions : is_unknown(offset_of(e.access)) /\ is_allocation(e.dom)
  /\ pc = "done"

\* C9: a load is resolved against allocations, loads, stores and atomics; a store
\* against allocations, stores and atomics, never loads; an atomic against stores
\* and atomics, never loads or allocations.
C9_DominatorKinds ==
  /\ \A e \in Resolved :
       /\ NodeOf(e.access).kind = "LoadP" => IsCandidateKind(e.dom)
       /\ NodeOf(e.access).kind = "StoreP" =>
            is_allocation(e.dom) \/ NodeOf(e.dom).kind \in {"StoreP", "LoadStore"}
       /\ NodeOf(e.access).kind = "LoadStore" =>
            NodeOf(e.dom).kind \in {"StoreP", "LoadStore"}
  /\ pc # "collect" =>
       \A n \in Nodes :
         /\ is_allocation(n) =>
              n \in Range(lists.dominators[1]) \cap Range(lists.dominators[2])
         /\ (IsStoreAccess(n) \/ IsAtomicAccess(n)) =>
              \A p \in 1..3 : n \in Range(lists.dominators[p])
         /\ IsLoadAccess(n) => n \in Range(lists.dominators[1])

C9_Witness ==
  /\ \E e \in Elisions : NodeOf(e.access).kind = "LoadStore" /\ NodeOf(e.dom).kind = "StoreP"
  /\ \E n \in Nodes : is_allocation(n) /\ n \in Range(lists.dominators[2])
  /\ pc = "done"

\* the registers of a mask
LiveRegs(m) == {reg \in 0..(rm_size_bits(m) - 1) : Member(m, reg, FALSE)}

\* the blocks on a cycle of the control-flow graph
LoopBlocks == {b \in Blocks : b \in ReachAvoiding(cfg.succ, cfg.succ[b], 0)}

\* C10: compute_liveness_at_stubs terminates on every control-flow graph, with
\* loops or without: the worklist becomes empty and the function returns, and
\* an iteration that adds blocks to the worklist is one in which the live-in
\* set of the popped block strictly grew.
C10_Terminates ==
  /\ <>(pc = "live_done")
  /\ [][(pc = "live_loop" /\ pc' = "live_loop" /\ worklist # <<>>
         /\ worklist' # Front(worklist))
        => /\ LiveRegs(live[Last(worklist)]) \subseteq LiveRegs(live'[Last(worklist)])
           /\ LiveRegs(live[Last(worklist)]) # LiveRegs(live'[Last(worklist)])]_vars

\* the function has returned on a graph with a loop, after the live-in set of
\* a block of the loop grew
C10_Witness ==
  /\ pc = "live_done"
  /\ \E b \in LoopBlocks : is_NotEmpty(live[b]) /\ Preds(b) # <<>>

-----------------------------------------------------------------------------
(* The backward may-be-live solution the liveness claims compare with *)

\* the registers the register allocator gave a node
RegsOf(n) == {node_regs[n].first, node_regs[n].second} \ {Bad}

\* the registers of the inputs of a node
UsedBy(n) == UNION {RegsOf(NodeOf(n).ins[u]) : u \in 1..Len(NodeOf(n).ins)}

RECURSIVE LiveAbove(_, _, _)
\* the registers that may be live just above the node at index k of block b,
\* when the registers of out are live at the bottom of the block
LiveAbove(b, k, out) ==
  IF k >= number_of_nodes(b) THEN out
  ELSE (LiveAbove(b, k + 1, out) \ RegsOf(get_node(b, k))) \cup UsedBy(get_node(b, k))

\* the registers live at the bottom of block b, for the live-in sets X
LiveOut(b, X) == UNION {X[s] : s \in cfg.succ[b]}

RECURSIVE LiveInFrom(_)
\* the least solution of the live-in equations above X
LiveInFrom(X) ==
  LET next == [b \in Blocks |-> LiveAbove(b, 0, LiveOut(b, X))]
  IN IF next = X THEN X ELSE LiveInFrom(next)

LiveInSolution == LiveInFrom([b \in Blocks |-> {}])

\* the blocks without successors
ExitBlocks == {b \in Blocks : cfg.succ[b] = {}}

\* C11: whatever the order in which the blocks are taken from the worklist,
\* when the worklist is empty the live-in set of every block is the least
\* solution of the live-in equations, hence the same for every order; and the
\* running live set of a block without successors starts empty.
C11_Confluence ==
  /\ pc = "live_done" =>
        \A b \in Blocks : /\ LiveRegs(live[b]) = LiveInSolution[b]
                          /\ ~is_AllStack(live[b])
  /\ pc = "live_loop" =>
        \A b \in ExitBlocks :
          /\ LiveRegs(union_of_successors(EmptyMask, Succs(b), 1)) = {}
          /\ ~is_AllStack(union_of_successors(EmptyMask, Succs(b), 1))

\* the function has returned on a graph with an exit block and a block with
\* several successors whose live-in sets differ, one of them not empty
C11_Witness ==
  /\ pc = "live_done"
  /\ ExitBlocks # {}
  /\ \E b \in Blocks : \E s, t \in cfg.succ[b] :
        /\ LiveRegs(live[s]) # {}
        /\ LiveRegs(live[s]) # LiveRegs(live[t])
        /\ LiveRegs(live[b]) # {}

\* the anchors: the nodes ZBarrierSetC2State::live keeps a mask for
Anchors == {n \in Nodes : tracks_liveness(n)}

\* the live-in sets the blocks hold
StoredLiveIn == [b \in Blocks |-> LiveRegs(live[b])]

\* the registers that may be live at node n (used by it, or live after it and
\* not defined by it), for the live-in sets the blocks hold
LiveAt(n) ==
  LiveAbove(BlockOf(n), block_index(BlockOf(n), n), LiveOut(BlockOf(n), StoredLiveIn))

\* the registers recorded for anchor n
Recorded(n) == LiveRegs(live_mask(node_live[n]))

\* C12: when the fixpoint has terminated, the set recorded for every anchor
\* contains every register that may be live at the anchor, computed from the
\* final live-in sets of the successors of its block.
C12_AnchorsCoverLive ==
  pc = "live_done" => \A n \in Anchors : LiveAt(n) \subseteq Recorded(n)

\* the function has returned and an anchor holds a register that is live at
\* the bottom of its block, and one that a node of its block uses
C12_Witness ==
  /\ pc = "live_done"
  /\ \E n \in Anchors :
        /\ Recorded(n) \cap LiveOut(BlockOf(n), StoredLiveIn) # {}
        /\ UsedBy(n) # {}
        /\ UsedBy(n) \subseteq Recorded(n)

\* C13: throughout the fixpoint the set recorded for every anchor and the
\* live-in set stored for every block only grow: a register that is a member
\* before an iteration is a member after it, also when a block is visited
\* several times.
C13_SetsOnlyGrow ==
  [][pc = "live_loop" =>
       /\ \A b \in Blocks : LiveRegs(live[b]) \subseteq LiveRegs(live'[b])
       /\ \A n \in Nodes :
            LiveRegs(live_mask(node_live[n])) \subseteq LiveRegs(live_mask(node_live'[n]))]_vars

\* a block with a live-in set and an anchor with a recorded set is on the
\* worklist again
C13_Witness ==
  /\ pc = "live_loop"
  /\ \E n \in Anchors :
        /\ Recorded(n) # {}
        /\ LiveRegs(live[BlockOf(n)]) # {}
        /\ BlockOf(n) \in Range(worklist)
        /\ Len(worklist) < MaxBlocks

-----------------------------------------------------------------------------
(* The claims about RegMask *)

\* the register ids that are members of a mask, ids beyond its capacity
\* counted as members exactly when its all-stack flag is set
Members(m) == {id \in AllIds : Member_including_AllStack(m, id)}

\* the register ids with an explicit bit in the mask
ExplicitMembers(m) == {id \in AllIds : Member(m, id, FALSE)}

\* the mask has grown beyond its base capacity
IsExtended(m) == m.rm_size > RM_SIZE

\* C14: after any sequence of Insert, Remove, OR, AND, SUBTRACT,
\* SUBTRACT_inner, Clear, Set_All_From, Set_All_From_Offset, rollover, copy and
\* assignment, both watermarks are below the capacity and no word below the
\* low watermark or above the high watermark has a bit set.
C14_ValidWatermarks ==
  pc = "regmask" =>
    /\ regmask.lwm < regmask.rm_size /\ regmask.hwm < regmask.rm_size
    /\ \A k \in 0..(regmask.rm_size - 1) :
         (k < regmask.lwm \/ k > regmask.hwm) => rm_up(regmask, k) = ZeroWord
    /\ valid_watermarks(regmask)

\* an extended all-stack mask with explicit bits, after AND narrowed its
\* watermarks
C14_Witness ==
  /\ pc = "regmask" /\ regmask_op.name = "AND"
  /\ IsExtended(regmask) /\ is_AllStack(regmask)
  /\ is_NotEmpty(regmask)
  /\ regmask.lwm > 0 /\ regmask.hwm = rm_max(regmask)

\* the bit stored for an id inside the capacity of the mask
StoredBit(m, id) ==
  ((id - offset_bits(m)) % BitsPerWord) \in rm_up(m, (id - offset_bits(m)) \div BitsPerWord)

\* C15: Member(id) is false for an id below the offset window, the all-stack
\* flag for an id at or beyond the capacity, and the stored bit otherwise; so
\* Member(rm_size_bits()) is true with the flag set and false with it cleared.
C15_MemberBeyondCapacity ==
  pc = "regmask" =>
    \A id \in AllIds :
      Member_default(regmask, id) =
        IF id - offset_bits(regmask) < 0 THEN FALSE
        ELSE IF id - offset_bits(regmask) >= rm_size_bits(regmask)
        THEN is_AllStack(regmask)
        ELSE StoredBit(regmask, id)

\* C16: Insert(k) and Remove(k) change the membership of exactly k: after
\* Insert(k) the members are the old members and k, and Member(k) is true;
\* after Remove(k) they are the old members without k; every other id,
\* including the ids beyond the old capacity that are members through the
\* all-stack flag, stays as it was, also when Insert grows the mask.
C16_InsertRemoveExactlyOne ==
  [][\A reg \in AllIds :
       /\ (/\ regmask_op'.name = "Insert" /\ reg \in InsertRegs(regmask)
           /\ regmask' = Insert(regmask, reg))
          => /\ Members(regmask') = Members(regmask) \cup {reg}
             /\ Member_default(regmask', reg)
       /\ (/\ regmask_op'.name = "Remove" /\ inside_mask(regmask, reg)
           /\ regmask' = Remove(regmask, reg))
          => /\ Members(regmask') = Members(regmask) \ {reg}
             /\ ~Member_default(regmask', reg)]_vars

\* Insert has grown an all-stack mask of which not every id is a member
C16_Witness ==
  /\ pc = "regmask" /\ regmask_op.name = "Insert"
  /\ IsExtended(regmask) /\ is_AllStack(regmask)
  /\ rm_up(regmask, RM_SIZE) = FullWord
  /\ \E id \in AllIds : id >= offset_bits(regmask) /\ id \notin Members(regmask)

\* two masks with the same members
SameSet(a, b) == Members(a) = Members(b)

\* a mask without members
IsEmptySet(m) == Members(m) = {} /\ ~is_NotEmpty(m) /\ ~is_AllStack(m)

\* the empty mask of an offset
EmptyAt(offset) == [EmptyMask EXCEPT !.offset = offset]

\* C17: for masks A and B of equal offset, basic or extended: A OR empty
\* equals A, A AND empty is empty, (A OR B) AND B equals B, A SUBTRACT A is
\* empty, and A OR A and A AND A equal A.
C17_SetIdentities ==
  pc = "regmask" =>
    /\ SameSet(OR(regmask, EmptyAt(regmask.offset)), regmask)
    /\ IsEmptySet(AND(regmask, EmptyAt(regmask.offset)))
    /\ IsEmptySet(SUBTRACT(regmask, regmask))
    /\ SameSet(OR(regmask, regmask), regmask)
    /\ SameSet(AND(regmask, regmask), regmask)
    /\ \A B \in Operands(regmask.offset) : SameSet(AND(OR(regmask, B), B), B)

\* AND has left an extended mask with the members of a basic all-stack
\* operand that has explicit bits
C17_Witness ==
  /\ pc = "regmask" /\ regmask_op.name = "AND"
  /\ IsExtended(regmask)
  /\ \E B \in Operands(regmask.offset) :
        /\ ~IsExtended(B) /\ is_AllStack(B) /\ is_NotEmpty(B)
        /\ SameSet(regmask, B)

\* C18: for masks A and B of equal offset, with any capacities and all-stack
\* flags, ids beyond a capacity counted as members exactly when the flag is
\* set: after A.OR(B) an id is in A iff it was in A or in B, after A.AND(B) iff
\* it was in both, after A.SUBTRACT(B) iff it was in A and not in B; the
\* capacity of A becomes at least that of B, and the flag becomes (a or b),
\* (a and b), (a and not b).
C18_AlgebraWithAllStack ==
  pc = "regmask" =>
    \A B \in Operands(regmask.offset) :
      LET in_A == Members(regmask)
          in_B == Members(B)
          ored == OR(regmask, B)
          anded == AND(regmask, B)
          subtracted == SUBTRACT(regmask, B)
      IN /\ Members(ored) = in_A \cup in_B
         /\ ored.rm_size >= B.rm_size
         /\ is_AllStack(ored) = (is_AllStack(regmask) \/ is_AllStack(B))
         /\ Members(anded) = in_A \cap in_B
         /\ anded.rm_size >= B.rm_size
         /\ is_AllStack(anded) = (is_AllStack(regmask) /\ is_AllStack(B))
         /\ Members(subtracted) = in_A \ in_B
         /\ subtracted.rm_size >= B.rm_size
         /\ is_AllStack(subtracted) = (is_AllStack(regmask) /\ ~is_AllStack(B))

\* SUBTRACT of a basic all-stack operand has cleared the flag and the words
\* beyond the operand of an extended mask, and left explicit bits
C18_Witness ==
  /\ pc = "regmask" /\ regmask_op.name = "SUBTRACT"
  /\ IsExtended(regmask) /\ ~is_AllStack(regmask)
  /\ is_NotEmpty(regmask)
  /\ regmask.hwm = RM_MAX
  /\ \A k \in RM_SIZE..rm_max(regmask) : rm_up(regmask, k) = ZeroWord

\* the first id above the window of the mask: its offset plus its capacity
WindowEnd(m) == offset_bits(m) + rm_size_bits(m)

\* C19: rollover, called on a mask that is all-stack with no explicit bit,
\* advances the offset by the capacity and leaves the mask meaning every id at
\* or above the new offset; after rollover and Clear, Insert of the id (old
\* capacity + k) makes that id a member, and no id of an earlier window, such
\* as the k of before the rollover, is a member.
C19_RolloverNewWindow ==
  [][(regmask_op'.name = "rollover" /\ is_AllStack_only(regmask))
       => /\ regmask'.offset = regmask.offset + regmask.rm_size
          /\ offset_bits(regmask') = WindowEnd(regmask)
          /\ Members(regmask') = {id \in AllIds : id >= WindowEnd(regmask)}
          /\ \A reg \in InsertRegs(regmask') :
                LET inserted == Insert(Clear(regmask'), reg)
                    k == reg - WindowEnd(regmask)
                IN /\ Member_default(inserted, reg)
                   /\ Members(inserted) = {reg}
                   /\ \A id \in AllIds :
                         id < WindowEnd(regmask) => ~Member_default(inserted, id)
                   /\ ~Member_default(inserted, offset_bits(regmask) + k)]_vars

\* after a rollover the mask has been cleared and one id of the new window
\* inserted: that id is the only member
C19_Witness ==
  /\ pc = "regmask" /\ regmask_op.name = "Insert"
  /\ regmask.offset > 0
  /\ ~is_AllStack(regmask)
  /\ \E reg \in InsertRegs(regmask) :
        /\ Members(regmask) = {reg}
        /\ Member_default(regmask, reg)
        /\ ~Member_default(regmask, reg - offset_bits(regmask))

\* the lowest and the highest id of a set of ids, OptoReg::Bad for no id
LowestId(ids) == IF ids = {} THEN Bad ELSE CHOOSE a \in ids : \A b \in ids : a <= b
HighestId(ids) == IF ids = {} THEN Bad ELSE CHOOSE a \in ids : \A b \in ids : a >= b

\* C20: find_first_elem returns the lowest and find_last_elem the highest
\* explicitly set id, with the offset applied, and both return OptoReg::Bad
\* when no explicit bit is set; setting the all-stack flag does not change the
\* result of find_last_elem. This holds after Remove, which leaves the
\* watermarks as they were, and after rollover.
C20_FindFirstLast ==
  pc = "regmask" =>
    /\ find_first_elem(regmask) = LowestId(ExplicitMembers(regmask))
    /\ find_last_elem(regmask) = HighestId(ExplicitMembers(regmask))
    /\ find_last_elem(set_AllStack(regmask, TRUE)) = find_last_elem(regmask)
    /\ find_first_elem(Clear(regmask)) = Bad
    /\ find_last_elem(Clear(regmask)) = Bad

\* after a rollover, Remove has emptied the words of both watermarks and
\* left a bit in a word between them
C20_Witness ==
  /\ pc = "regmask" /\ regmask_op.name = "Remove"
  /\ regmask.offset > 0
  /\ rm_up(regmask, regmask.lwm) = ZeroWord
  /\ rm_up(regmask, regmask.hwm) = ZeroWord
  /\ find_first_elem(regmask) # Bad
  /\ find_last_elem(regmask) >= find_first_elem(regmask)

\* C21: RegMaskIterator yields exactly the explicitly set ids of the mask,
\* each once, in strictly ascending order with the offset applied; after that
\* has_next() is false and next() returns OptoReg::Bad; the number of ids
\* yielded equals Size(), which counts explicit bits and not the all-stack flag.
C21_IteratorYieldsExplicitIds ==
  pc = "regmask" =>
    LET done == iterate(regmask)
        ids == done.yielded
        after == RegMaskIterator_next(done.it, regmask)
    IN /\ {ids[k] : k \in 1..Len(ids)} = ExplicitMembers(regmask)
       /\ \A k \in 1..(Len(ids) - 1) : ids[k] < ids[k + 1]
       /\ ~has_next(done.it)
       /\ after.r = Bad /\ ~has_next(after.it)
       /\ Len(ids) = Size(regmask)
       /\ Size(set_AllStack(regmask, TRUE)) = Size(set_AllStack(regmask, FALSE))

\* an all-stack mask after a rollover whose iterator yields several ids of
\* one word and ids of another word, with an empty word inside the watermarks
C21_Witness ==
  /\ pc = "regmask" /\ regmask.offset > 0 /\ is_AllStack(regmask)
  /\ Len(iterate(regmask).yielded) >= 3
  /\ \E k \in regmask.lwm..regmask.hwm : rm_up(regmask, k) = ZeroWord
  /\ \E k \in regmask.lwm..regmask.hwm : Cardinality(rm_up(regmask, k)) >= 2

\* the ids whose bit is stored in the mask
StoredIds(m) ==
  {id \in offset_bits(m)..(offset_bits(m) + rm_size_bits(m) - 1) : Member(m, id, FALSE)}

\* the aligned group of n ids an id lies in
IdGroup(id, n) == {g \in ((id \div n) * n)..((id \div n) * n + n - 1) : TRUE}

\* the mask of the alignment test after clear_to_pairs
AlignmentPairs == clear_to_pairs(InsertAll(EmptyMask, AlignmentIds))

Window(m) == m.offset..(m.offset + m.rm_size - 1)

\* the second operands of every offset
OperandsOfAnyOffset == UNION {Operands(offset) : offset \in MaskOffsets}

\* C23: A.SUBTRACT_inner(B), for masks of different offsets and capacities,
\* removes from A exactly the ids that are explicitly set in both A and B,
\* compared by absolute id, and leaves every other id of A, the all-stack
\* flag of A and the capacity of A as they were; masks whose windows are
\* disjoint after a rollover are left unchanged.
C23_SubtractInner ==
  pc = "regmask" =>
    \A in_A \in {ExplicitMembers(regmask)}, beyond_A \in {Members(regmask)} :
      \A B \in OperandsOfAnyOffset :
        \A subtracted \in {SUBTRACT_inner(regmask, B)} :
          \A left \in {ExplicitMembers(subtracted)} :
            /\ left = in_A \ ExplicitMembers(B)
            /\ Members(subtracted) \ left = beyond_A \ in_A
            /\ is_AllStack(subtracted) = is_AllStack(regmask)
            /\ subtracted.rm_size = regmask.rm_size
            /\ subtracted.offset = regmask.offset
            /\ valid_watermarks(subtracted)
            /\ Window(regmask) \cap Window(B) = {} => subtracted = regmask

\* SUBTRACT_inner has left a rolled-over mask from which an operand of
\* another offset, whose window overlaps, takes an id
C23_Witness ==
  /\ pc = "regmask" /\ regmask_op.name = "SUBTRACT_inner"
  /\ regmask.offset > 0
  /\ \E offset \in MaskOffsets \ {regmask.offset} : \E B \in Operands(offset) :
        /\ B.rm_size # regmask.rm_size
        /\ ExplicitMembers(regmask) \cap ExplicitMembers(B) # {}
        /\ ExplicitMembers(regmask) \ ExplicitMembers(B) # {}

\* two blocks have no byte in common
Disjoint(b1, b2) == b1.loc + b1.sz <= b2.loc \/ b2.loc + b2.sz <= b1.loc

\* C24: the blocks returned by the successful alloc calls since the last
\* reset are pairwise non-overlapping and lie inside the reserved range
\* [start, start + size); after reset_to(p) the next successful alloc returns
\* a block starting at p; the bump offset never exceeds the committed boundary.
C24_BumpAllocator ==
  pc \in {"provider", "vm_exit"} =>
    LET blocks == returned.blocks IN
    /\ \A a, b \in 1..Len(blocks) : a < b => Disjoint(blocks[a], blocks[b])
    /\ \A a \in 1..Len(blocks) :
          /\ cont_allocator.start <= blocks[a].loc
          /\ blocks[a].loc + blocks[a].sz <= cont_allocator.start + cont_allocator.size
    /\ (returned.reset_to # nullptr /\ blocks # <<>>) => blocks[1].loc = returned.reset_to
    /\ cont_allocator.offset <= cont_allocator.committed_boundary

\* the outcomes of process_access that resolve an access
ResolvingOutcomes == {"dom_elided", "sab_elided", "sab_bailout"}

\* the access of the current iteration has been resolved against a dominator
CurAccessResolved ==
  /\ pc \in {"scan", "process"} /\ i < Len(Accesses)
  /\ \E k \in 1..Len(resolved) :
        resolved[k].access = CurAccess /\ resolved[k].outcome \in ResolvingOutcomes

\* C25: once an access has been resolved against one qualifying dominator
\* (process_access gave dominator-elided, safepoint-attached-elided or
\* bailout), no further candidate dominator is examined for it and no further
\* flag or safepoint record is produced for it: the next step of the pass
\* moves to the next access.
C25_StopAfterResolved ==
  [][CurAccessResolved
       => /\ i' = i + 1
          /\ barrier_data' = barrier_data /\ sfp_barriers' = sfp_barriers
          /\ resolved' = resolved]_vars


-----------------------------------------------------------------------------
(* The claims about the late phase *)

LivenessPcs == {"live_init", "live_loop", "live_done", "outside_mask"}
ElisionPcs == {"collect", "scan", "process", "done", "fatal"}
ElidingOutcomes == {"dom_elided", "sab_elided"}

\* the accesses the late elision analysis itself has elided
ElidedLate ==
  {resolved[k].access : k \in {m \in 1..Len(resolved) :
     resolved[m].outcome \in ElidingOutcomes /\ ~resolved[m].was_elided}}

\* C26, as the specification states it: in the late phase the elision analysis
\* runs before the liveness analysis, so no step of the elision analysis
\* follows a step of the liveness computation
C26_ElisionBeforeLiveness ==
  [][(pc \in LivenessPcs) => ~(pc' \in ElisionPcs)]_vars

\* C26, amended: in the late phase the liveness computation runs first, on the
\* elision tags the accesses entered the phase with.  While it runs the
\* elision analysis has done nothing; the elision analysis starts only when
\* the worklist is empty, and every access it elides already has a live mask.
C26_LivenessBeforeElision ==
  /\ pc \in LivenessPcs =>
       /\ resolved = <<>>
       /\ lists = [accesses |-> <<<<>>, <<>>, <<>>>>, dominators |-> <<<<>>, <<>>, <<>>>>]
  /\ pc \in ElisionPcs =>
       /\ live # <<>> /\ worklist = <<>>
       /\ \A n \in ElidedLate : node_live[n] # NoMask

\* the late elision analysis has elided an access whose live mask was computed
C26_Witness ==
  /\ pc = "done"
  /\ \E n \in ElidedLate : has_barrier_flag(n, "Elided") /\ node_live[n] # NoMask


\* the flags that hold the elision state of an access
ElisionFlags == {"Elided", "DomElided", "SABElided", "SABBailout"}

\* the loops around the block of n whose head the block of the address dominates
DominatedLoopsAround(n) ==
  {h \in Blocks :
     /\ cfg.tree.loop[h] = h
     /\ BlockOf(n) \in cfg.tree.members[h]
     /\ Dominates(BlockOf(look_through_node(base_of(n), TRUE)), h)}

\* the outermost of them: the one the others are inside
OutermostDominatedLoop(n) ==
  CHOOSE h \in DominatedLoopsAround(n) :
    \A g \in DominatedLoopsAround(n) : cfg.tree.members[g] \subseteq cfg.tree.members[h]

\* what the specification asks of a load that is flagged
MayBeFlagged(n) ==
  /\ NodeOf(n).kind = "LoadP"
  /\ "Strong" \in barrier_data[n] /\ "NoKeepalive" \notin barrier_data[n]
  /\ offset_of(n) # OffsetBot /\ offset_of(n) >= 0
  /\ base_of(n) # NoNode
  /\ DominatedLoopsAround(n) # {}
  /\ cfg.freq[cfg.tree.entry[OutermostDominatedLoop(n)]] < cfg.freq[BlockOf(n)]

\* C27: a step of the early pass changes no elision flag of any node and no
\* safepoint's record list, adds the hoisting-candidate flag only to a strong,
\* non-no-keepalive load with a concrete nonnegative offset around which there
\* is a loop whose header the address-defining block dominates and whose
\* outermost such loop has a pre-header of strictly lower frequency than the
\* load's block, and changes nothing else
C27_EarlyPassAdvisory ==
  [][(pc = "early") =>
       /\ sfp_barriers' = sfp_barriers
       /\ resolved' = resolved /\ lists' = lists /\ cfg' = cfg
       /\ \A n \in Nodes :
            /\ barrier_data'[n] \cap ElisionFlags = barrier_data[n] \cap ElisionFlags
            /\ barrier_data[n] \subseteq barrier_data'[n]
            /\ barrier_data'[n] \ barrier_data[n] \subseteq {"HoistingCandidate"}
            /\ barrier_data'[n] # barrier_data[n] => MayBeFlagged(n)]_vars

\* the pass has flagged a load of an inner loop for the pre-header of an outer one
C27_Witness ==
  /\ pc = "early_done"
  /\ \E n \in Nodes :
       /\ "HoistingCandidate" \in barrier_data[n]
       /\ cfg.tree.loop[BlockOf(n)] # OutermostDominatedLoop(n)


-----------------------------------------------------------------------------
(* The claims about the def-chain walk and the safepoints it finds *)

RECURSIVE FirstDefinition(_)
\* the first node of a def chain that is neither a cast nor a spill copy
FirstDefinition(n) ==
  IF (is_CheckCastPP(n) \/ is_SpillCopy(n)) /\ NodeOf(n).in1 # NoNode
  THEN FirstDefinition(NodeOf(n).in1)
  ELSE n

\* the walk of the def chain is about to start for an accepted dominator
WalkStarts ==
  InCandidateLoop /\ j < Len(Dominators) /\ candidate_accepted(CurAccess, CurDom)

\* C28: for every accepted dominator the walk of the def chain of the access
\* ends without a fatal error (neither the unreachable branch of next_def nor
\* the iteration limit), and the node it ends at, the first one after the casts
\* and spill copies, is an allocation Phi or the address definition of the
\* dominator
C28_DefChainWalkTerminates ==
  [][WalkStarts =>
       /\ pc' = "process"
       /\ LET last == FirstDefinition(base_of(CurAccess)) IN
          \/ is_Phi(last) /\ is_allocation(last)
          \/ ~is_Phi(CurDom) /\ last = FirstDefinition(base_of(CurDom))]_vars

\* a walk through a cast or a spill copy has ended at the allocation
C28_Witness ==
  /\ pc = "process"
  /\ base_of(CurAccess) # NoNode
  /\ is_CheckCastPP(base_of(CurAccess)) \/ is_SpillCopy(base_of(CurAccess))
  /\ FirstDefinition(base_of(CurAccess)) = CurDom


\* the safepoint is not above the dominator: its block is dominated by the
\* block of the dominator and, in that block, it comes after the dominator
BelowDominator(msfp, dom) ==
  /\ Dominates(BlockOf(dom), BlockOf(msfp))
  /\ BlockOf(dom) = BlockOf(msfp) =>
       block_index(BlockOf(dom), dom) < block_index(BlockOf(msfp), msfp)

\* C29: every safepoint found for an access and a dominator D, on the list the
\* walk has just filled and on every list process_access was called with, is
\* in a block that the block of D dominates and, in the block of D, after D
C29_SafepointsBelowDominator ==
  /\ pc = "process" =>
       \A x \in 1..Len(access_list) : BelowDominator(access_list[x].msfp, CurDom)
  /\ \A k \in 1..Len(resolved) :
       \A x \in 1..Len(resolved[k].found) :
         BelowDominator(resolved[k].found[x].msfp, resolved[k].dom)

\* a safepoint of the dominator's own block has been found and recorded, and
\* the dominator is not the first node of the block
C29_Witness ==
  \E k \in 1..Len(resolved) :
    /\ resolved[k].outcome = "sab_elided"
    /\ block_index(BlockOf(resolved[k].dom), resolved[k].dom) > 0
    /\ \E x \in 1..Len(resolved[k].found) :
         BlockOf(resolved[k].found[x].msfp) = BlockOf(resolved[k].dom)


-----------------------------------------------------------------------------
(* The claim about Remove in compute_liveness_at_stubs *)

=============================================================================
